---- MODULE Spec2Model ----
(***************************************************************************)
(* ChamCall meeting lifecycle and signaling coordinator.                   *)
(*                                                                         *)
(* The durable store (room_id_tracker, meetings, participants), the REST   *)
(* operations of MeetingService and the Socket.IO signaling server are     *)
(* modelled as a state machine.  Every asynchronous operation is a task    *)
(* whose program counter advances by one storage round-trip (one await)    *)
(* per step, so that tasks interleave exactly at the suspension points of  *)
(* the JavaScript code.                                                    *)
(***************************************************************************)
EXTENDS Integers, Sequences, FiniteSets, TLC

(***************************************************************************)
(* Bounds of the model.                                                    *)
(***************************************************************************)
\* user ids are 1..MaxUsers; 0 stands for an absent userId (null)
MaxUsers == 3
\* operations that may be in progress at once under Spec, SpecAlloc, SpecSock
MaxTasks == 2
\* createMeeting calls started in one behaviour of SpecAlloc
MaxAllocCalls == 3
\* meetings created in one behaviour of the other specifications
MaxMeetings == 1
\* operations started in one behaviour of Spec, SpecSeq, SpecTime, SpecSock
MaxCalls == 5
MaxSeqCalls == 6
MaxTimeCalls == 4
MaxSockCalls == 7
\* connections opened in one behaviour
MaxConns == 3
\* requests made in one behaviour of SpecRoute
MaxRouteCalls == 4
\* requests and connections made in one behaviour of SpecHook
MaxHookCalls == 3
\* meetings created and operations started in one behaviour of SpecLedger
MaxLedgerMeetings == 2
MaxLedgerCalls == 4
\* operations started in one behaviour of SpecPresence
MaxPresenceCalls == 5
\* operations started in one behaviour of SpecNotify
MaxNotifyCalls == 4
\* operations started in one behaviour of SpecRoom
MaxRoomCalls == 5

Users == 1..MaxUsers
\* the users of the specifications with a clock and with sockets
TimeUsers == 1..2
SockUsers == {1}
NoUser == 0
Apps == {"appA", "appB"}
\* the candidates generateRoomIdPattern can draw (all match the pattern)
RoomIds == {"abc-1234-xyz", "qrs-5678-tuv"}
\* the ids createRoom can draw for a legacy room
LegacyRoomIds == {"room_1"}
ConnIds == 1..MaxConns
NULL == -1

\* generateUniqueRoomId(appId, maxAttempts = 10)
MaxAttemptsDefault == 10
\* config.meeting.expiryBufferMinutes
ExpiryBufferMinutes == 30
\* config.turn.ttlSeconds
TurnTtlSeconds == 600
\* the instants the clock visits, in minutes
Instants == <<0, 36, 40, 100>>
\* request bodies of CreateMeeting: scheduledAt (NULL: instant meeting)
SchedChoices == {NULL, 1}
DurationChoices == {5, 60}
CapChoices == {2, 100}

VARIABLES
  ledger,        \* room_id_tracker collection: set of [roomId, appId]
  returned,      \* history: how many allocate calls returned each id
  meetings,      \* meetings collection: meetingId -> Meeting document
  participants,  \* participants collection, in insertion order
  calls,         \* number of operations started so far
  tasks,         \* operations in progress, one per slot
  last,          \* the operation the step just taken completed, and its result
  clk,           \* index of the current instant in Instants
  legacy,        \* data/store.js rooms and participants maps: legacy room
                 \* id -> [appId, participants (the userIds of the list)]
  conns,         \* Socket.IO connections, by connection id
  rooms,         \* Socket.IO adapter: room key -> set of connection ids
  lastEmit,      \* the fan-out of the step just taken: sender, event, recipients
  lastHs,        \* the handshake of the step just taken: what the client presented
  apps,          \* data/store.js apps map: appId -> webhook subscription
  posts          \* the delivery attempts the webhook dispatcher has made, in order

data == <<ledger, returned, meetings, participants>>
store == <<ledger, returned, meetings, participants, calls>>
sock == <<legacy, conns, rooms>>
hook == <<apps, posts>>
vars == <<ledger, returned, meetings, participants, calls, tasks, last, clk,
          legacy, conns, rooms, lastEmit, lastHs, apps, posts>>

now == Instants[clk]

(***************************************************************************)
(* Tasks.                                                                  *)
(***************************************************************************)
IdleTask ==
  [op |-> "idle", pc |-> "", m |-> "", u |-> NoUser, app |-> "",
   att |-> 0, max |-> 0, ex |-> FALSE, t |-> NULL, c |-> 0, arg |-> <<>>]

NoResult ==
  [op |-> "none", m |-> "", u |-> NoUser, c |-> 0, res |-> "",
   turn |-> [username |-> "", credential |-> "", ttl |-> 0]]
NoEmit == [from |-> 0, ev |-> "", to |-> {}]
NoHs == [c |-> 0, tok |-> "none", hm |-> "", hu |-> NoUser]

\* a step that sends nothing to a room and opens no connection
Silent == lastEmit' = NoEmit /\ lastHs' = NoHs

Slots == 1..MaxTasks
Busy == {s \in Slots : tasks[s].op # "idle"}

\* an operation returns (or throws) res to its caller
Finish(s, res) ==
  /\ tasks' = [tasks EXCEPT ![s] = IdleTask]
  /\ last' = [op |-> tasks[s].op, m |-> tasks[s].m, u |-> tasks[s].u,
              c |-> tasks[s].c, res |-> res, turn |-> NoResult.turn]

\* the task issues its next storage call; a timestamp that call carries
\* (new Date()) is taken now
Goto(s, label) ==
  /\ tasks' = [tasks EXCEPT ![s].pc = label, ![s].t = now]
  /\ last' = NoResult

\* one more operation is started; limit.calls bounds those of one behaviour
Count(limit) == calls < limit.calls /\ calls' = calls + 1

\* a caller invokes an operation that awaits; it takes the lowest free slot,
\* limit.par bounds the operations in progress
Start(limit, t) ==
  /\ Cardinality(Busy) < limit.par
  /\ Count(limit)
  /\ LET s == CHOOSE x \in Slots \ Busy : \A y \in Slots \ Busy : x <= y
     IN tasks' = [tasks EXCEPT ![s] = t]
  /\ last' = NoResult

(***************************************************************************)
(* IdentifierAllocator: RoomIdTracker.reserve and generateUniqueRoomId.    *)
(***************************************************************************)
LedgerIds(l) == {r.roomId : r \in l}

\* a ledger whose insert ignores the unique index on roomId
ReserveNoIndex(l, roomId, appId) ==
  [success |-> TRUE, ledger |-> l \cup {[roomId |-> roomId, appId |-> appId]}]

\* a ledger whose insert replaces the reservation of a taken identifier
ReserveUpsert(l, roomId, appId) ==
  [success |-> TRUE,
   ledger |-> {r \in l : r.roomId # roomId} \cup {[roomId |-> roomId, appId |-> appId]}]

\* RoomIdTracker.reserve: create() against the unique index on roomId;
\* a duplicate key (11000) gives success = FALSE
Reserve(l, roomId, appId) ==
  IF roomId \in LedgerIds(l)
    THEN [success |-> FALSE, ledger |-> l]
    ELSE [success |-> TRUE, ledger |-> l \cup {[roomId |-> roomId, appId |-> appId]}]

\* one pass of the for loop of generateUniqueRoomId: draw a candidate and
\* await reserveRoomId
AllocAttempt(s) ==
  /\ tasks[s].op = "create"
  /\ tasks[s].pc = "alloc"
  /\ \E cand \in RoomIds :
       LET r == Reserve(ledger, cand, tasks[s].app) IN
       IF r.success
         THEN /\ ledger' = r.ledger
              /\ returned' = [returned EXCEPT ![cand] = @ + 1]
              /\ tasks' = [tasks EXCEPT ![s].pc = "save", ![s].m = cand, ![s].t = now]
              /\ last' = NoResult
         ELSE /\ UNCHANGED <<ledger, returned>>
              /\ IF tasks[s].att + 1 >= MaxAttemptsDefault
                   THEN Finish(s, "Failed to generate unique room ID")
                   ELSE /\ tasks' = [tasks EXCEPT ![s].att = @ + 1]
                        /\ last' = NoResult
  /\ Silent
  /\ UNCHANGED <<meetings, participants, calls, clk, sock, hook>>

(***************************************************************************)
(* MeetingRepository.                                                      *)
(***************************************************************************)
NullMeeting ==
  [appId |-> "", status |-> "null", scheduledAt |-> NULL, durationMinutes |-> 0,
   expiresAt |-> NULL, startedAt |-> NULL, endedAt |-> NULL, maxParticipants |-> 0]

\* Meeting.findOne({ meetingId }).lean()
FindByMeetingId(ms, m) == IF m \in DOMAIN ms THEN ms[m] ELSE NullMeeting

\* MeetingRepository.updateStatus: findOneAndUpdate({ meetingId }, { $set })
MeetingUpdateStatus(ms, m, status, t) ==
  IF m \notin DOMAIN ms THEN ms
  ELSE [ms EXCEPT ![m] =
          [@ EXCEPT !.status = status,
                    !.startedAt = IF status = "active" THEN t ELSE @,
                    !.endedAt = IF status = "completed" THEN t ELSE @]]

\* MeetingRepository.expireOldMeetings: updateMany on created/scheduled
ExpireOldMeetings(ms, t) ==
  [m \in DOMAIN ms |->
     IF /\ ms[m].status \in {"created", "scheduled"}
        /\ ms[m].expiresAt # NULL
        /\ ms[m].expiresAt < t
       THEN [ms[m] EXCEPT !.status = "expired"]
       ELSE ms[m]]

\* an expiry that leaves the buffer out
ComputeExpiresAtNoBuffer(scheduledAt, durationMinutes) ==
  IF scheduledAt # NULL THEN scheduledAt + durationMinutes ELSE NULL

\* createMeeting lines 36-43: expiry from scheduledAt, duration and buffer
ComputeExpiresAt(scheduledAt, durationMinutes) ==
  IF scheduledAt # NULL
    THEN scheduledAt + durationMinutes + ExpiryBufferMinutes
    ELSE NULL

\* MeetingSchema.pre("save"): expiry only when the document has none
PreSaveMeeting(doc) ==
  IF doc.scheduledAt # NULL /\ doc.expiresAt = NULL
    THEN [doc EXCEPT !.expiresAt = doc.scheduledAt + doc.durationMinutes + 30]
    ELSE doc

\* the document createMeeting hands to meetingRepository.create
NewMeeting(appId, scheduledAt, durationMinutes, maxParticipants) ==
  [appId |-> appId,
   status |-> IF scheduledAt # NULL THEN "scheduled" ELSE "created",
   scheduledAt |-> scheduledAt,
   durationMinutes |-> durationMinutes,
   expiresAt |-> ComputeExpiresAt(scheduledAt, durationMinutes),
   startedAt |-> NULL,
   endedAt |-> NULL,
   maxParticipants |-> maxParticipants]

(***************************************************************************)
(* ParticipantRepository.                                                  *)
(***************************************************************************)
IsActive(p) == p.status \in {"joined", "connected"}

\* schema defaults of Participant.mediaState
DefaultMediaState ==
  [audioEnabled |-> TRUE, videoEnabled |-> TRUE, screenSharing |-> FALSE]

\* index of the document findOne({ meetingId, userId }) returns, 0 if none
FindIdx(ps, m, u) ==
  LET hits == {i \in 1..Len(ps) : ps[i].meetingId = m /\ ps[i].userId = u}
  IN IF hits = {} THEN 0 ELSE CHOOSE i \in hits : \A j \in hits : i <= j

\* a lookup that never finds the existing document
FindByMeetingAndUserMissed(ps, m, u) == FALSE

\* ParticipantRepository.findByMeetingAndUser (truthiness of the result)
FindByMeetingAndUser(ps, m, u) == FindIdx(ps, m, u) # 0

\* Participant.getActiveInMeeting: indices of joined/connected documents
GetActiveInMeeting(ps, m) ==
  {i \in 1..Len(ps) : ps[i].meetingId = m /\ IsActive(ps[i])}

\* ParticipantRepository.countInMeeting(meetingId, true)
CountInMeeting(ps, m) == Cardinality(GetActiveInMeeting(ps, m))

\* ParticipantRepository.updateStatus: findOneAndUpdate on the first match
ParticipantUpdateStatus(ps, m, u, status, t) ==
  LET i == FindIdx(ps, m, u) IN
  IF i = 0 THEN ps
  ELSE [ps EXCEPT ![i] =
          [@ EXCEPT !.status = status,
                    !.connectedAt = IF status = "connected" THEN t ELSE @,
                    !.leftAt = IF status = "left" THEN t ELSE @]]

\* ParticipantRepository.add: new Participant(data).save(); the compound
\* index { meetingId, userId } is not unique
ParticipantAdd(ps, m, u, appId, t) ==
  Append(ps, [meetingId |-> m, userId |-> u, appId |-> appId, status |-> "joined",
              joinedAt |-> t, connectedAt |-> NULL, leftAt |-> NULL,
              durationSeconds |-> 0, mediaState |-> DefaultMediaState])

\* a bulk update that reaches the connected documents only
MarkAllLeftConnectedOnly(ps, m, t) ==
  [i \in 1..Len(ps) |->
     IF ps[i].meetingId = m /\ ps[i].status = "connected"
       THEN [ps[i] EXCEPT !.status = "left", !.leftAt = t]
       ELSE ps[i]]

\* ParticipantRepository.markAllLeft: updateMany on joined/connected
MarkAllLeft(ps, m, t) ==
  [i \in 1..Len(ps) |->
     IF ps[i].meetingId = m /\ IsActive(ps[i])
       THEN [ps[i] EXCEPT !.status = "left", !.leftAt = t]
       ELSE ps[i]]

(***************************************************************************)
(* MeetingService.createMeeting.                                           *)
(***************************************************************************)
NewTask(op, pc, m, u, app) ==
  [IdleTask EXCEPT !.op = op, !.pc = pc, !.m = m, !.u = u, !.app = app, !.t = now]

\* request bodies of POST /api/meetings: scheduledAt (NULL when absent),
\* durationMinutes and settings.maxParticipants
Bodies(scheds, durs, caps) ==
  {[scheduledAt |-> sc, durationMinutes |-> d, maxParticipants |-> cp] :
     sc \in scheds, d \in durs, cp \in caps}

\* POST /api/meetings: createMeeting starts with generateUniqueRoomId
BeginCreate(limit, maxMeetings, appIds, bodies) ==
  /\ Cardinality(DOMAIN meetings) + Cardinality({s \in Slots : tasks[s].op = "create"})
       < maxMeetings
  /\ \E app \in appIds, body \in bodies :
       Start(limit, [NewTask("create", "alloc", "", NoUser, app) EXCEPT !.arg = body])
  /\ Silent
  /\ UNCHANGED <<data, clk, sock, hook>>

\* Meeting.save() against the unique index on meetingId
MeetingCreate(ms, m, doc) ==
  [x \in DOMAIN ms \cup {m} |-> IF x = m THEN doc ELSE ms[x]]

\* createMeeting lines 36-67: build the document and save it
CreateSave(s) ==
  /\ tasks[s].op = "create"
  /\ tasks[s].pc = "save"
  /\ LET body == tasks[s].arg
         doc == PreSaveMeeting(NewMeeting(tasks[s].app, body.scheduledAt,
                                          body.durationMinutes, body.maxParticipants))
     IN IF tasks[s].m \in DOMAIN meetings
          THEN /\ UNCHANGED meetings
               /\ Finish(s, "E11000 duplicate key")
          ELSE /\ meetings' = MeetingCreate(meetings, tasks[s].m, doc)
               /\ Finish(s, doc.status)
  /\ Silent
  /\ UNCHANGED <<ledger, returned, participants, calls, clk, sock, hook>>

(***************************************************************************)
(* MeetingService.canJoinMeeting.                                          *)
(***************************************************************************)
ValidStatuses == {"created", "scheduled", "active"}
StatusReason(status) == "Meeting is " \o status

\* meeting.expiresAt && new Date() > new Date(meeting.expiresAt)
Expired(mt, t) == mt.expiresAt # NULL /\ t > mt.expiresAt

\* a fallback to the limit createMeeting stores when the body gives none
EffectiveMaxDefaultTwo(mt) == IF mt.maxParticipants = 0 THEN 2 ELSE mt.maxParticipants

\* meeting.settings?.maxParticipants || 100
EffectiveMax(mt) == IF mt.maxParticipants = 0 THEN 100 ELSE mt.maxParticipants

\* maxParticipants > 0 && maxParticipants < 100
LimitChecked(max) == max > 0 /\ max < 100

\* the checks on the meeting document without the test that it was found
CanJoinDecisionNoLookup(mt, t) ==
  IF mt.status \notin ValidStatuses THEN "status"
  ELSE IF Expired(mt, t) THEN "expired"
  ELSE IF LimitChecked(EffectiveMax(mt)) THEN "limit"
  ELSE "allow"

\* the checks on the meeting document with the limit looked at before expiry
CanJoinDecisionLimitFirst(mt, t) ==
  IF mt.status = "null" THEN "notfound"
  ELSE IF mt.status \notin ValidStatuses THEN "status"
  ELSE IF LimitChecked(EffectiveMax(mt)) THEN "limit"
  ELSE IF Expired(mt, t) THEN "expired"
  ELSE "allow"

\* the checks canJoinMeeting makes on the meeting document, in order
CanJoinDecision(mt, t) ==
  IF mt.status = "null" THEN "notfound"
  ELSE IF mt.status \notin ValidStatuses THEN "status"
  ELSE IF Expired(mt, t) THEN "expired"
  ELSE IF LimitChecked(EffectiveMax(mt)) THEN "limit"
  ELSE "allow"

\* a count of the active participants that includes the requester
OtherParticipantsAll(ps, m, u) == GetActiveInMeeting(ps, m)

\* activeParticipants.filter(p => p.userId !== userId), all when userId is null
OtherParticipants(ps, m, u) ==
  {i \in GetActiveInMeeting(ps, m) : u = NoUser \/ ps[i].userId # u}

\* otherParticipants.length >= maxParticipants
IsFull(ps, m, u, max) == Cardinality(OtherParticipants(ps, m, u)) >= max

\* next(new Error(reason)): the middleware refuses the connection
Rejected(cs, c) == [cs EXCEPT ![c].state = "rejected"]

\* canJoinMeeting returns { allowed: false, reason } to its caller: joinMeeting
\* and the validate route return it, the socket middleware rejects with it
CjDeny(s, reason) ==
  /\ Finish(s, reason)
  /\ conns' = IF tasks[s].op = "connect" THEN Rejected(conns, tasks[s].c) ELSE conns

\* socket middleware lines 75-84: the session is bound in meeting mode
BindMeeting(cs, c, m, u) ==
  [cs EXCEPT ![c] = [state |-> "admitted", mode |-> "meeting", room |-> m,
                     user |-> u, app |-> "public"]]

\* canJoinMeeting returns { allowed: true }: joinMeeting goes on, the validate
\* route answers, the socket middleware binds the session and the connection
\* handler issues updateStatus(roomId, userId, "connected")
CjAllow(s) ==
  CASE tasks[s].op = "join" -> Goto(s, "j_find") /\ UNCHANGED conns
    [] tasks[s].op = "validate" -> Finish(s, "allowed") /\ UNCHANGED conns
    [] tasks[s].op = "connect" ->
         /\ Goto(s, "s_connected")
         /\ conns' = BindMeeting(conns, tasks[s].c, tasks[s].m, tasks[s].u)

\* lines 127-144: read the meeting, check status and expiry
CanJoinFind(s) ==
  /\ tasks[s].pc = "cj_find"
  /\ LET mt == FindByMeetingId(meetings, tasks[s].m)
         d == CanJoinDecision(mt, now)
     IN CASE d = "notfound" -> CjDeny(s, "Meeting not found")
          [] d = "status" -> CjDeny(s, StatusReason(mt.status))
          [] d = "expired" -> Goto(s, "cj_expire") /\ UNCHANGED conns
          [] d = "limit" ->
               /\ tasks' = [tasks EXCEPT ![s].pc = "cj_active",
                                         ![s].max = EffectiveMax(mt), ![s].t = now]
               /\ last' = NoResult
               /\ UNCHANGED conns
          [] d = "allow" -> CjAllow(s)
  /\ Silent
  /\ UNCHANGED <<store, clk, legacy, rooms, hook>>

\* line 142: await meetingRepository.updateStatus(meetingId, "expired")
CanJoinExpire(s) ==
  /\ tasks[s].pc = "cj_expire"
  /\ meetings' = MeetingUpdateStatus(meetings, tasks[s].m, "expired", tasks[s].t)
  /\ CjDeny(s, "Meeting has expired")
  /\ Silent
  /\ UNCHANGED <<ledger, returned, participants, calls, clk, legacy, rooms, hook>>

\* lines 151-164: read the active participants, check the limit
CanJoinActive(s) ==
  /\ tasks[s].pc = "cj_active"
  /\ IF IsFull(participants, tasks[s].m, tasks[s].u, tasks[s].max)
       THEN CjDeny(s, "Meeting is full")
       ELSE CjAllow(s)
  /\ Silent
  /\ UNCHANGED <<store, clk, legacy, rooms, hook>>

(***************************************************************************)
(* MeetingService.joinMeeting.                                             *)
(***************************************************************************)
\* POST /:meetingId/join with a well-formed id and a userId
BeginJoin(limit, ms, us) ==
  /\ \E m \in ms, u \in us : Start(limit, NewTask("join", "cj_find", m, u, ""))
  /\ Silent
  /\ UNCHANGED <<data, clk, sock, hook>>

\* lines 199-204: read the meeting again, decide on the transition to active
JoinFind(s) ==
  /\ tasks[s].pc = "j_find"
  /\ LET mt == FindByMeetingId(meetings, tasks[s].m) IN
       tasks' = [tasks EXCEPT
                   ![s].pc = IF mt.status \in {"created", "scheduled"}
                               THEN "j_activate" ELSE "j_lookup",
                   ![s].app = mt.appId, ![s].t = now]
  /\ last' = NoResult
  /\ Silent
  /\ UNCHANGED <<store, clk, sock, hook>>

\* line 203: await meetingRepository.updateStatus(meetingId, "active")
JoinActivate(s) ==
  /\ tasks[s].pc = "j_activate"
  /\ meetings' = MeetingUpdateStatus(meetings, tasks[s].m, "active", tasks[s].t)
  /\ Goto(s, "j_lookup")
  /\ Silent
  /\ UNCHANGED <<ledger, returned, participants, calls, clk, sock, hook>>

\* line 207: existingParticipant = await findByMeetingAndUser(meetingId, userId)
JoinLookup(s) ==
  /\ tasks[s].pc = "j_lookup"
  /\ tasks' = [tasks EXCEPT
                 ![s].pc = "j_write",
                 ![s].ex = FindByMeetingAndUser(participants, tasks[s].m, tasks[s].u),
                 ![s].t = now]
  /\ last' = NoResult
  /\ Silent
  /\ UNCHANGED <<store, clk, sock, hook>>

\* the write joinMeeting makes for the participant (lines 209-222)
JoinParticipant(ps, m, u, appId, ex, t) ==
  IF ex THEN ParticipantUpdateStatus(ps, m, u, "joined", t)
        ELSE ParticipantAdd(ps, m, u, appId, t)

\* a credential whose username carries the time of issue, not the expiry
GenerateTurnCredentialsNoTtl(appId, t) ==
  LET username == ToString(t * 60) \o ":" \o appId IN
  [username |-> username,
   credential |-> "hmac-sha1-base64[change-me](" \o username \o ")",
   ttl |-> TurnTtlSeconds]

\* generateTurnCredentials: Math.floor(Date.now() / 1000) is the minute t in
\* seconds; the HMAC-SHA1 digest is the string that determines its key
\* (config.turn.staticSecret) and its message
GenerateTurnCredentials(appId, t) ==
  LET timestamp == t * 60 + TurnTtlSeconds
      username == ToString(timestamp) \o ":" \o appId
  IN [username |-> username,
      credential |-> "hmac-sha1-base64[change-me](" \o username \o ")",
      ttl |-> TurnTtlSeconds]

\* lines 209-250: the awaited participant write, then the credentials for
\* meeting.appId and the answer
JoinWrite(s) ==
  /\ tasks[s].pc = "j_write"
  /\ participants' = JoinParticipant(participants, tasks[s].m, tasks[s].u,
                                     tasks[s].app, tasks[s].ex, tasks[s].t)
  /\ tasks' = [tasks EXCEPT ![s] = IdleTask]
  /\ last' = [op |-> "join", m |-> tasks[s].m, u |-> tasks[s].u, c |-> tasks[s].c,
              res |-> "success",
              turn |-> GenerateTurnCredentials(tasks[s].app, now)]
  /\ Silent
  /\ UNCHANGED <<ledger, returned, meetings, calls, clk, sock, hook>>

(***************************************************************************)
(* MeetingService.leaveMeeting, endMeeting, cancelMeeting; cleanup,        *)
(* validate and update routes.                                             *)
(***************************************************************************)
\* the (meetingId, userId) pairs that hold a joined or connected document
ActivePairs ==
  {<<participants[i].meetingId, participants[i].userId>> :
     i \in {j \in 1..Len(participants) : IsActive(participants[j])}}

\* POST /:meetingId/leave for one of the (meetingId, userId) pairs mus
BeginLeave(limit, mus) ==
  /\ \E mu \in mus : Start(limit, NewTask("leave", "l_mark", mu[1], mu[2], ""))
  /\ Silent
  /\ UNCHANGED <<data, clk, sock, hook>>

\* lines 261-263: updateStatus(meetingId, userId, "left", { leftAt: new Date() })
LeaveMark(s) ==
  /\ tasks[s].pc = "l_mark"
  /\ participants' = ParticipantUpdateStatus(participants, tasks[s].m, tasks[s].u,
                                             "left", tasks[s].t)
  /\ Goto(s, "l_count")
  /\ Silent
  /\ UNCHANGED <<ledger, returned, meetings, calls, clk, sock, hook>>

\* lines 266-268: activeCount = await countInMeeting(meetingId, true)
LeaveCount(s) ==
  /\ tasks[s].pc = "l_count"
  /\ IF CountInMeeting(participants, tasks[s].m) = 0
       THEN Goto(s, "l_complete")
       ELSE Finish(s, "success")
  /\ Silent
  /\ UNCHANGED <<store, clk, sock, hook>>

\* lines 270-272: updateStatus(meetingId, "completed", { endedAt: new Date() })
LeaveComplete(s) ==
  /\ tasks[s].pc = "l_complete"
  /\ meetings' = MeetingUpdateStatus(meetings, tasks[s].m, "completed", tasks[s].t)
  /\ Finish(s, "success")
  /\ Silent
  /\ UNCHANGED <<ledger, returned, participants, calls, clk, sock, hook>>

\* POST /:meetingId/end behind requireAppAuth, which binds the calling app
BeginEnd(limit, ms) ==
  /\ \E m \in ms, app \in Apps : Start(limit, NewTask("end", "e_mark", m, NoUser, app))
  /\ Silent
  /\ UNCHANGED <<data, clk, sock, hook>>

\* POST /:meetingId/cancel behind requireAppAuth
BeginCancel(limit, ms) ==
  /\ \E m \in ms, app \in Apps :
       Start(limit, NewTask("cancel", "e_mark", m, NoUser, app))
  /\ Silent
  /\ UNCHANGED <<data, clk, sock, hook>>

\* POST /:meetingId/cleanup
BeginCleanup(limit, ms) ==
  /\ \E m \in ms : Start(limit, NewTask("cleanup", "e_mark", m, NoUser, ""))
  /\ Silent
  /\ UNCHANGED <<data, clk, sock, hook>>

\* await participantRepository.markAllLeft(meetingId): first call of
\* endMeeting and cancelMeeting, only call of the cleanup route
MarkLeft(s) ==
  /\ tasks[s].pc = "e_mark"
  /\ participants' = MarkAllLeft(participants, tasks[s].m, tasks[s].t)
  /\ IF tasks[s].op = "cleanup"
       THEN Finish(s, "success")
       ELSE Goto(s, "e_status")
  /\ Silent
  /\ UNCHANGED <<ledger, returned, meetings, calls, clk, sock, hook>>

\* the status endMeeting (lines 294-296) and cancelMeeting (line 409) write
FinalStatus(op) == IF op = "end" THEN "completed" ELSE "cancelled"

EndStatus(s) ==
  /\ tasks[s].pc = "e_status"
  /\ meetings' = MeetingUpdateStatus(meetings, tasks[s].m, FinalStatus(tasks[s].op),
                                     tasks[s].t)
  /\ Finish(s, "success")
  /\ Silent
  /\ UNCHANGED <<ledger, returned, participants, calls, clk, sock, hook>>

\* GET /:meetingId/validate: canJoinMeeting(meetingId) without a userId
BeginValidate(limit, ms) ==
  /\ \E m \in ms : Start(limit, NewTask("validate", "cj_find", m, NoUser, ""))
  /\ Silent
  /\ UNCHANGED <<data, clk, sock, hook>>

\* bodies of PUT /:meetingId that pass the allowedUpdates filter
UpdateChoices ==
  {[scheduledAt |-> 40], [durationMinutes |-> 5], [maxParticipants |-> 0]}

\* MeetingRepository.update: findOneAndUpdate({ meetingId }, { $set: updateData })
MeetingUpdate(ms, m, upd) ==
  IF m \notin DOMAIN ms THEN ms
  ELSE [ms EXCEPT ![m] =
          [f \in DOMAIN ms[m] |-> IF f \in DOMAIN upd THEN upd[f] ELSE ms[m][f]]]

\* PUT /:meetingId behind requireAppAuth: updateMeeting makes one storage call
BeginUpdate(limit, ms) ==
  /\ \E m \in ms, upd \in UpdateChoices, app \in Apps :
       Start(limit, [NewTask("update", "u_set", m, NoUser, app) EXCEPT !.arg = upd])
  /\ Silent
  /\ UNCHANGED <<data, clk, sock, hook>>

UpdateSet(s) ==
  /\ tasks[s].pc = "u_set"
  /\ meetings' = MeetingUpdate(meetings, tasks[s].m, tasks[s].arg)
  /\ Finish(s, IF tasks[s].m \in DOMAIN meetings THEN "success" ELSE "Meeting not found")
  /\ Silent
  /\ UNCHANGED <<ledger, returned, participants, calls, clk, sock, hook>>

\* time passes
Tick ==
  /\ clk < Len(Instants)
  /\ clk' = clk + 1
  /\ last' = NoResult
  /\ Silent
  /\ UNCHANGED <<store, tasks, sock, hook>>

(***************************************************************************)
(* The /:meetingId routes: getMeetingStatus and the identifier check.      *)
(***************************************************************************)
\* GET /:meetingId/status
BeginStatus(limit, ms) ==
  /\ \E m \in ms : Start(limit, NewTask("status", "g_find", m, NoUser, ""))
  /\ Silent
  /\ UNCHANGED <<data, clk, sock, hook>>

\* getMeetingStatus lines 312-316: read the meeting, null when there is none
StatusFind(s) ==
  /\ tasks[s].pc = "g_find"
  /\ LET mt == FindByMeetingId(meetings, tasks[s].m) IN
       IF mt.status = "null"
         THEN Finish(s, "Meeting not found")
         ELSE /\ tasks' = [tasks EXCEPT ![s].pc = "g_active", ![s].t = now,
                                        ![s].arg = [status |-> mt.status]]
              /\ last' = NoResult
  /\ Silent
  /\ UNCHANGED <<store, clk, sock, hook>>

\* lines 318-334: read the active participants and answer with the status
\* read before
StatusActive(s) ==
  /\ tasks[s].pc = "g_active"
  /\ Finish(s, tasks[s].arg.status)
  /\ Silent
  /\ UNCHANGED <<store, clk, sock, hook>>

\* [a-z]
LowerCase ==
  {"a", "b", "c", "d", "e", "f", "g", "h", "i", "j", "k", "l", "m",
   "n", "o", "p", "q", "r", "s", "t", "u", "v", "w", "x", "y", "z"}

\* a test that looks at the separators and the length only
IsValidRoomIdShape(chars) ==
  /\ Len(chars) = 12
  /\ chars[4] = "-" /\ chars[9] = "-"

\* isValidRoomId on a path parameter given character by character:
\* /^[a-z]{3}-\d{4}-[a-z]{3}$/.test(roomId), false for the empty string
IsValidRoomId(chars) ==
  /\ Len(chars) = 12
  /\ \A i \in {1, 2, 3, 10, 11, 12} : chars[i] \in LowerCase
  /\ \A i \in {5, 6, 7, 8} :
       chars[i] \in {"0", "1", "2", "3", "4", "5", "6", "7", "8", "9"}
  /\ chars[4] = "-" /\ chars[9] = "-"

\* the string the characters spell
RECURSIVE Spell(_)
Spell(chars) == IF chars = <<>> THEN "" ELSE Head(chars) \o Spell(Tail(chars))

\* path parameters a client may send: the two ids of RoomIds and ids that
\* break the pattern in case, digit count, separator, length and prefix
PathParams ==
  {<<"a", "b", "c", "-", "1", "2", "3", "4", "-", "x", "y", "z">>,
   <<"q", "r", "s", "-", "5", "6", "7", "8", "-", "t", "u", "v">>,
   <<"A", "B", "C", "-", "1", "2", "3", "4", "-", "X", "Y", "Z">>,
   <<"a", "b", "c", "-", "1", "2", "3", "-", "x", "y", "z">>,
   <<"a", "b", "c", "_", "1", "2", "3", "4", "_", "x", "y", "z">>,
   <<"a", "b", "c", "-", "1", "2", "3", "4", "-", "x", "y", "z", "z">>,
   <<"r", "o", "o", "m", "_", "1">>}

\* the meeting ids the routes let through
Accepted(params) == {Spell(p) : p \in {q \in params : IsValidRoomId(q)}}

\* the operations behind the routes that take /:meetingId
RouteOps ==
  {"validate", "join", "leave", "status", "end", "cancel", "update", "cleanup"}

\* a /:meetingId route whose isValidMeetingId check fails answers at once:
\* 400 "Invalid meeting ID format", { valid: false, reason } on validate
RejectId(limit, params) ==
  /\ Count(limit)
  /\ \E p \in params, op \in RouteOps :
       /\ ~IsValidRoomId(p)
       /\ last' = [NoResult EXCEPT !.op = op, !.m = Spell(p),
                                   !.res = "Invalid meeting ID format"]
  /\ Silent
  /\ UNCHANGED <<data, tasks, clk, sock, hook>>

(***************************************************************************)
(* Webhook dispatcher (webhooks/dispatcher.js) and routes/webhooks.js.     *)
(***************************************************************************)
\* config.webhook.retryScheduleSeconds
RetryScheduleSeconds == <<0, 30, 120, 600, 1800>>
\* config.webhook.defaultSecret
DefaultSecret == "webhook-secret"
\* the apps map after the seed of data/store.js: one app, webhookUrl null
\* (written ""), webhookSecret set
SeedApps == [a \in {"appA"} |-> [webhookUrl |-> "", webhookSecret |-> "demo-webhook"]]
\* what an endpoint answers: a status code, or NULL when fetch throws
Responses == {200, 500, NULL}

\* JSON.stringify of an object of string members, given as <<key, value>> pairs
RECURSIVE JsonMembers(_)
JsonMembers(kv) ==
  IF kv = <<>> THEN ""
  ELSE "\"" \o kv[1][1] \o "\":\"" \o kv[1][2] \o "\""
         \o (IF Len(kv) > 1 THEN "," ELSE "") \o JsonMembers(Tail(kv))

JsonStringify(kv) == "{" \o JsonMembers(kv) \o "}"

\* crypto.createHmac("sha256", secret).update(payload).digest("hex"); the
\* digest is kept symbolic: a string that determines key and message
HmacSha256(payload, secret) ==
  "hmac-sha256[" \o secret \o "](" \o payload \o ")"

\* headers whose signature covers the body alone, under the default secret
HookHeadersBodyOnly(app, appId, event, payload, timestamp) ==
  [h \in {"X-App-Id", "X-Event", "X-Timestamp", "X-Signature"} |->
     CASE h = "X-App-Id" -> appId
       [] h = "X-Event" -> event
       [] h = "X-Timestamp" -> timestamp
       [] h = "X-Signature" ->
            "sha256=" \o HmacSha256(JsonStringify(payload), DefaultSecret)]

\* lines 120-128 of the dispatcher: the secret, the signature and the headers;
\* timestamp is Date.now().toString()
HookHeaders(app, appId, event, payload, timestamp) ==
  LET secret == IF app.webhookSecret # "" THEN app.webhookSecret ELSE DefaultSecret
      signature == HmacSha256(timestamp \o "." \o JsonStringify(payload), secret)
  IN [h \in {"X-App-Id", "X-Event", "X-Timestamp", "X-Signature"} |->
        CASE h = "X-App-Id" -> appId
          [] h = "X-Event" -> event
          [] h = "X-Timestamp" -> timestamp
          [] h = "X-Signature" -> "sha256=" \o signature]

\* a dispatcher that goes on without an endpoint
ConfiguredAlways(app) == TRUE

\* !app.webhookUrl is false
Configured(app) == app.webhookUrl # ""

\* a test that takes every answered request for a delivery
ResAnswered(resp) == resp # NULL

\* res.ok
ResOk(resp) == resp # NULL /\ resp >= 200 /\ resp <= 299

\* dispatchWebhook({ app: apps.get(appId), event, payload }) up to its first
\* suspension: nothing for an app without endpoint (and a rejected promise,
\* which the socket callers swallow, for an unknown app); otherwise the
\* delivery goes on as a task of its own, op telling who waits for it
DispatchWebhook(limit, op, appId, event, payload) ==
  IF appId \notin DOMAIN apps \/ ~Configured(apps[appId])
    THEN UNCHANGED tasks
    ELSE /\ Cardinality(Busy) < limit.par
         /\ LET s == CHOOSE x \in Slots \ Busy : \A y \in Slots \ Busy : x <= y
            IN tasks' = [tasks EXCEPT ![s] =
                 [NewTask(op, "h_post", "", NoUser, appId) EXCEPT
                    !.arg = [id |-> calls + 1, payload |-> payload,
                             url |-> apps[appId].webhookUrl,
                             headers |-> HookHeaders(apps[appId], appId, event,
                                                     payload, ToString(now))]]]

\* one pass of the retry loop: the wait before every attempt but the first,
\* then postJson(app.webhookUrl, payload, headers) and its outcome; the first
\* request goes out within the dispatching call, the later ones read the url
\* the app object holds after their wait
HookPost(s) ==
  /\ tasks[s].pc = "h_post"
  /\ \E r \in Responses :
       LET n == tasks[s].att + 1
           url == IF tasks[s].att = 0 THEN tasks[s].arg.url
                  ELSE apps[tasks[s].app].webhookUrl
           resp == IF url = "" THEN NULL ELSE r
       IN /\ posts' = Append(posts,
               [id |-> tasks[s].arg.id, n |-> n,
                wait |-> IF tasks[s].att > 0 THEN RetryScheduleSeconds[n] ELSE 0,
                url |-> url, headers |-> tasks[s].arg.headers,
                body |-> JsonStringify(tasks[s].arg.payload), resp |-> resp])
          /\ IF ResOk(resp)
               THEN Finish(s, IF tasks[s].op = "test" THEN "ok" ELSE "delivered")
               ELSE IF n >= Len(RetryScheduleSeconds)
                 THEN Finish(s, IF tasks[s].op = "test" THEN "ok" ELSE "failed")
                 ELSE tasks' = [tasks EXCEPT ![s].att = n] /\ last' = NoResult
  /\ Silent
  /\ UNCHANGED <<store, clk, sock, apps>>

\* POST /webhooks/subscribe
Subscribe(limit, appIds, urls, secrets) ==
  /\ Count(limit)
  /\ \E a \in appIds, url \in urls, secret \in secrets :
       IF a \notin DOMAIN apps
         THEN /\ apps' = apps
              /\ last' = [NoResult EXCEPT !.op = "subscribe", !.res = "App not found"]
         ELSE /\ apps' = [apps EXCEPT ![a] =
                   [webhookUrl |-> url,
                    webhookSecret |-> IF secret # "" THEN secret ELSE @.webhookSecret]]
              /\ last' = [NoResult EXCEPT !.op = "subscribe", !.res = "ok"]
  /\ Silent
  /\ UNCHANGED <<data, tasks, clk, sock, posts>>

\* POST /webhooks/test: await dispatchWebhook(...), then res.json({ ok: true })
BeginTest(limit, appIds) ==
  /\ Count(limit)
  /\ \E a \in appIds :
       IF a \notin DOMAIN apps \/ apps[a].webhookUrl = ""
         THEN /\ last' = [NoResult EXCEPT !.op = "test", !.res = "Webhook not configured"]
              /\ UNCHANGED tasks
         ELSE /\ DispatchWebhook(limit, "test", a, "test.event", <<(<<"hello", "world">>)>>)
              /\ last' = NoResult
  /\ Silent
  /\ UNCHANGED <<data, clk, sock, hook>>

(***************************************************************************)
(* Socket.IO signaling server (socket/index.js) and the legacy room store. *)
(***************************************************************************)
RoomKeys == RoomIds \cup LegacyRoomIds

\* a connection: its progress and socket.data (authMode and claims)
NoConn == [state |-> "none", mode |-> "", room |-> "", user |-> NoUser, app |-> ""]

\* the events the connection handler relays with socket.to(roomId).emit
RelayEvents ==
  {"webrtc-offer", "webrtc-answer", "ice-candidate",
   "user-media-updated", "screen-share-started", "screen-share-stopped"}

\* createRoom of data/store.js (POST /api/v1/rooms)
CreateRoom(limit) ==
  /\ Count(limit)
  /\ \E id \in LegacyRoomIds \ DOMAIN legacy, app \in Apps :
       legacy' = [x \in DOMAIN legacy \cup {id} |->
                   IF x = id THEN [appId |-> app, participants |-> <<>>] ELSE legacy[x]]
  /\ last' = NoResult
  /\ Silent
  /\ UNCHANGED <<data, tasks, clk, conns, rooms, hook>>

\* io.to(roomId): every socket of the room, the sender included
BroadcastToAll(rs, room, c) == IF room \in DOMAIN rs THEN rs[room] ELSE {}

\* socket.to(roomId): every socket of the room but the sender
BroadcastTo(rs, room, c) == IF room \in DOMAIN rs THEN rs[room] \ {c} ELSE {}

\* socket.join(roomId)
SocketJoin(rs, room, c) ==
  [k \in DOMAIN rs \cup {room} |->
     IF k = room THEN (IF k \in DOMAIN rs THEN rs[k] ELSE {}) \cup {c} ELSE rs[k]]

\* a closing socket leaves every room
SocketLeaveAll(rs, c) == [k \in DOMAIN rs |-> rs[k] \ {c}]

\* a middleware that fails on every token verifyToken refuses
AuthDecisionNoFallback(tok, hm, hu) ==
  IF tok = "ok" THEN "jwt"
  ELSE IF tok = "bad" THEN "invalid"
  ELSE IF hm # "" /\ hu # NoUser THEN "meeting"
  ELSE "required"

\* io.use, lines 45-95: which way the handshake goes; tok is "ok" when
\* verifyToken accepts the token, "bad" when it throws, "none" without a token
AuthDecision(tok, hm, hu) ==
  IF tok = "ok" THEN "jwt"
  ELSE IF tok = "bad" /\ (hm = "" \/ hu = NoUser) THEN "invalid"
  ELSE IF hm # "" /\ hu # NoUser THEN "meeting"
  ELSE "required"

\* a room validation that looks for the room and not for its app
LegacyRoomOkAnyApp(lg, room, app) == room \in DOMAIN lg

\* connection handler, lines 109-116: the legacy room must exist and belong
\* to the token's app
LegacyRoomOk(lg, room, app) == room \in DOMAIN lg /\ lg[room].appId = app

\* addParticipant of data/store.js: the user is pushed onto the room's list
AddParticipant(lg, room, u) ==
  [lg EXCEPT ![room].participants = Append(@, u)]

\* removeParticipant of data/store.js: every entry of the user is filtered out
RemoveParticipant(lg, room, u) ==
  [lg EXCEPT ![room].participants = SelectSeq(@, LAMBDA p : p # u)]

\* the id the transport gives the next connection
FreshConn ==
  CHOOSE c \in ConnIds :
    conns[c].state = "none" /\ \A d \in ConnIds : conns[d].state = "none" => c <= d

\* what the middleware or the connection handler answers without awaiting
Answer(c, hm, hu, res) ==
  [op |-> "connect", m |-> hm, u |-> hu, c |-> c, res |-> res, turn |-> NoResult.turn]

AuthRequired == "Authentication required - provide token OR meetingId+userId"

\* a client opens a connection: the middleware runs, and for a verified
\* token the connection handler runs through (it awaits nothing)
Connect(limit, hms, hus) ==
  /\ \E c \in ConnIds : conns[c].state = "none"
  /\ \E tok \in {"none", "bad", "ok"}, hm \in hms \cup {""}, hu \in hus \cup {NoUser} :
       LET c == FreshConn
           d == AuthDecision(tok, hm, hu)
       IN
       /\ lastHs' = [c |-> c, tok |-> tok, hm |-> hm, hu |-> hu]
       /\ CASE d = "jwt" ->
                 \E room \in LegacyRoomIds, sub \in hus, app \in Apps :
                   LET bound == [state |-> "open", mode |-> "jwt", room |-> room,
                                 user |-> sub, app |-> app] IN
                   IF LegacyRoomOk(legacy, room, app)
                     THEN /\ conns' = [conns EXCEPT ![c] = bound]
                          /\ legacy' = AddParticipant(legacy, room, sub)
                          /\ rooms' = SocketJoin(rooms, room, c)
                          /\ lastEmit' = [from |-> c, ev |-> "user-joined",
                                          to |-> BroadcastTo(rooms', room, c)]
                          /\ last' = Answer(c, hm, hu, "connected")
                          /\ Count(limit)
                          /\ DispatchWebhook(limit, "notify", app, "user.joined",
                               <<(<<"roomId", room>>), (<<"userId", ToString(sub)>>)>>)
                     ELSE /\ conns' = [conns EXCEPT ![c] = [bound EXCEPT !.state = "closed"]]
                          /\ lastEmit' = NoEmit
                          /\ last' = Answer(c, hm, hu, "disconnected")
                          /\ Count(limit) /\ UNCHANGED <<legacy, rooms, tasks>>
            [] d = "invalid" ->
                 /\ conns' = Rejected(conns, c)
                 /\ lastEmit' = NoEmit
                 /\ last' = Answer(c, hm, hu, "Invalid token")
                 /\ Count(limit) /\ UNCHANGED <<legacy, rooms, tasks>>
            [] d = "meeting" ->
                 /\ conns' = [conns EXCEPT ![c].state = "handshake"]
                 /\ Start(limit, [NewTask("connect", "cj_find", hm, hu, "") EXCEPT !.c = c])
                 /\ lastEmit' = NoEmit
                 /\ UNCHANGED <<legacy, rooms>>
            [] d = "required" ->
                 /\ conns' = Rejected(conns, c)
                 /\ lastEmit' = NoEmit
                 /\ last' = Answer(c, hm, hu, AuthRequired)
                 /\ Count(limit) /\ UNCHANGED <<legacy, rooms, tasks>>
  /\ UNCHANGED <<data, clk, hook>>

\* connection handler in meeting mode, lines 121-139: the awaited
\* updateStatus(roomId, userId, "connected"), then socket.join and user-joined
SockConnected(s) ==
  /\ tasks[s].pc = "s_connected"
  /\ LET c == tasks[s].c IN
       /\ participants' = ParticipantUpdateStatus(participants, tasks[s].m, tasks[s].u,
                                                  "connected", tasks[s].t)
       /\ rooms' = SocketJoin(rooms, conns[c].room, c)
       /\ lastEmit' = [from |-> c, ev |-> "user-joined",
                       to |-> BroadcastTo(rooms', conns[c].room, c)]
       /\ conns' = [conns EXCEPT ![c].state = "open"]
  /\ lastHs' = NoHs
  /\ Finish(s, "connected")
  /\ UNCHANGED <<ledger, returned, meetings, calls, clk, legacy, hook>>

\* the payload a relay event persists in meeting mode (lines 164-167, 180, 192)
MediaPatches(ev) ==
  CASE ev = "user-media-updated" ->
         {[audioEnabled |-> a, videoEnabled |-> v] : a \in BOOLEAN, v \in BOOLEAN}
    [] ev = "screen-share-started" -> {[screenSharing |-> TRUE]}
    [] ev = "screen-share-stopped" -> {[screenSharing |-> FALSE]}
    [] OTHER -> {}

\* an update that reaches every document of the meeting
UpdateMediaStateAll(ps, m, u, mediaState) ==
  [i \in 1..Len(ps) |->
     IF ps[i].meetingId = m THEN [ps[i] EXCEPT !.mediaState = mediaState] ELSE ps[i]]

\* ParticipantRepository.updateMediaState: $set: { mediaState }
UpdateMediaState(ps, m, u, mediaState) ==
  LET i == FindIdx(ps, m, u) IN
  IF i = 0 THEN ps ELSE [ps EXCEPT ![i].mediaState = mediaState]

\* a handler that awaits the write of the media state before it relays, and
\* so hands the event over only after later events of the same connection
RelayPersistFirst(limit) ==
  /\ \E c \in ConnIds, ev \in RelayEvents :
       /\ conns[c].state = "open"
       /\ IF conns[c].mode = "meeting" /\ MediaPatches(ev) # {}
            THEN /\ lastEmit' = NoEmit
                 /\ \E patch \in MediaPatches(ev) :
                      Start(limit, [NewTask("media", "m_set", conns[c].room, conns[c].user, "")
                                      EXCEPT !.c = c, !.arg = patch])
            ELSE /\ lastEmit' = [from |-> c, ev |-> ev,
                                 to |-> BroadcastTo(rooms, conns[c].room, c)]
                 /\ last' = NoResult /\ Count(limit) /\ UNCHANGED tasks
  /\ lastHs' = NoHs
  /\ UNCHANGED <<data, clk, legacy, conns, rooms, hook>>

\* an open connection sends a relay event: the fan-out is synchronous, the
\* media state of a meeting-mode connection is persisted after it
Relay(limit) ==
  /\ \E c \in ConnIds, ev \in RelayEvents :
       /\ conns[c].state = "open"
       /\ lastEmit' = [from |-> c, ev |-> ev, to |-> BroadcastTo(rooms, conns[c].room, c)]
       /\ IF conns[c].mode = "meeting" /\ MediaPatches(ev) # {}
            THEN \E patch \in MediaPatches(ev) :
                   Start(limit, [NewTask("media", "m_set", conns[c].room, conns[c].user, "")
                                   EXCEPT !.c = c, !.arg = patch])
            ELSE last' = NoResult /\ Count(limit) /\ UNCHANGED tasks
  /\ lastHs' = NoHs
  /\ UNCHANGED <<data, clk, legacy, conns, rooms, hook>>

MediaSet(s) ==
  /\ tasks[s].pc = "m_set"
  /\ participants' = UpdateMediaState(participants, tasks[s].m, tasks[s].u, tasks[s].arg)
  /\ Finish(s, "saved")
  /\ Silent
  /\ UNCHANGED <<ledger, returned, meetings, calls, clk, sock, hook>>

\* the transport closes an open connection: it leaves its rooms, user-left
\* is sent to the room, and a meeting-mode connection runs leaveMeeting
Disconnect(limit) ==
  /\ \E c \in ConnIds :
       /\ conns[c].state = "open"
       /\ rooms' = SocketLeaveAll(rooms, c)
       /\ lastEmit' = [from |-> c, ev |-> "user-left",
                       to |-> BroadcastTo(rooms', conns[c].room, c)]
       /\ conns' = [conns EXCEPT ![c].state = "closed"]
       /\ IF conns[c].mode = "meeting"
            THEN /\ Start(limit, [NewTask("disconnect", "l_mark", conns[c].room,
                                          conns[c].user, "") EXCEPT !.c = c])
                 /\ UNCHANGED legacy
            ELSE /\ legacy' = RemoveParticipant(legacy, conns[c].room, conns[c].user)
                 /\ last' = NoResult
                 /\ Count(limit)
                 /\ DispatchWebhook(limit, "notify", conns[c].app, "user.left",
                      <<(<<"roomId", conns[c].room>>),
                        (<<"userId", ToString(conns[c].user)>>)>>)
  /\ lastHs' = NoHs
  /\ UNCHANGED <<data, clk, hook>>

(***************************************************************************)
(* Initial state and specifications.                                       *)
(***************************************************************************)
Init ==
  /\ ledger = {}
  /\ returned = [id \in RoomIds |-> 0]
  /\ meetings = [m \in {} |-> NullMeeting]
  /\ participants = <<>>
  /\ calls = 0
  /\ tasks = [s \in Slots |-> IdleTask]
  /\ last = NoResult
  /\ clk = 1
  /\ legacy = <<>>
  /\ conns = [c \in ConnIds |-> NoConn]
  /\ rooms = [k \in RoomKeys |-> {}]
  /\ lastEmit = NoEmit
  /\ lastHs = NoHs
  /\ apps = SeedApps
  /\ posts = <<>>

\* an instant meeting with the default limit of createMeeting
InstantBodies == Bodies({NULL}, {60}, {2})
\* instant meetings with and without a checked limit
CapBodies == Bodies({NULL}, {60}, CapChoices)
\* instant and scheduled meetings
TimeBodies == Bodies(SchedChoices, DurationChoices, {2})

\* how many operations run at once, and how many in one behaviour
Interleaved == [par |-> MaxTasks, calls |-> MaxCalls]
OneAtATime == [par |-> 1, calls |-> MaxSeqCalls]
OneAtATimeClock == [par |-> 1, calls |-> MaxTimeCalls]
InterleavedAlloc == [par |-> MaxTasks, calls |-> MaxAllocCalls]
OneAtATimeRoute == [par |-> 1, calls |-> MaxRouteCalls]
InterleavedHook == [par |-> 1, calls |-> MaxHookCalls]
InterleavedSock == [par |-> 1, calls |-> MaxSockCalls]

\* one storage round-trip of createMeeting
CreateStep(s) == AllocAttempt(s) \/ CreateSave(s)

\* one storage round-trip of canJoinMeeting while no meeting is past its expiry
AdmitStep(s) == CanJoinFind(s) \/ CanJoinActive(s)

\* one storage round-trip of joinMeeting after the admission check
JoinStep(s) == JoinFind(s) \/ JoinActivate(s) \/ JoinLookup(s) \/ JoinWrite(s)

\* one storage round-trip of leaveMeeting
LeaveStep(s) == LeaveMark(s) \/ LeaveCount(s) \/ LeaveComplete(s)

\* one storage round-trip of endMeeting, cancelMeeting or the cleanup route
EndStep(s) == MarkLeft(s) \/ EndStatus(s)

\* createMeeting and joinMeeting calls on the meetings that exist and
\* leaveMeeting calls of the users who are in one, interleaved at their awaits
Next ==
  \/ BeginCreate(Interleaved, MaxMeetings, {"appA"}, InstantBodies)
  \/ BeginJoin(Interleaved, DOMAIN meetings, Users)
  \/ BeginLeave(Interleaved, ActivePairs)
  \/ \E s \in Slots : CreateStep(s) \/ AdmitStep(s) \/ JoinStep(s) \/ LeaveStep(s)

Spec == Init /\ [][Next]_vars

\* every operation of the meetings API on any well-formed id, one at a time
NextSeq ==
  \/ BeginCreate(OneAtATime, MaxMeetings, Apps, CapBodies)
  \/ BeginJoin(OneAtATime, RoomIds, Users)
  \/ BeginLeave(OneAtATime, RoomIds \X Users)
  \/ BeginEnd(OneAtATime, RoomIds)
  \/ BeginCancel(OneAtATime, RoomIds)
  \/ BeginCleanup(OneAtATime, RoomIds)
  \/ BeginValidate(OneAtATime, RoomIds)
  \/ BeginUpdate(OneAtATime, RoomIds)
  \/ \E s \in Slots :
       \/ CreateStep(s) \/ AdmitStep(s) \/ JoinStep(s) \/ LeaveStep(s)
       \/ EndStep(s) \/ UpdateSet(s)

SpecSeq == Init /\ [][NextSeq]_vars

\* scheduled and instant meetings while time passes, one operation at a time
NextTime ==
  \/ BeginCreate(OneAtATimeClock, MaxMeetings, {"appA"}, TimeBodies)
  \/ BeginJoin(OneAtATimeClock, DOMAIN meetings, TimeUsers)
  \/ BeginLeave(OneAtATimeClock, (DOMAIN meetings) \X TimeUsers)
  \/ BeginValidate(OneAtATimeClock, DOMAIN meetings)
  \/ BeginUpdate(OneAtATimeClock, DOMAIN meetings)
  \/ Tick
  \/ \E s \in Slots :
       \/ CreateStep(s) \/ AdmitStep(s) \/ CanJoinExpire(s) \/ JoinStep(s)
       \/ LeaveStep(s) \/ UpdateSet(s)

SpecTime == Init /\ [][NextTime]_vars

\* concurrent createMeeting calls racing on the reservation ledger
NextAlloc ==
  \/ BeginCreate(InterleavedAlloc, MaxAllocCalls, Apps, InstantBodies)
  \/ \E s \in Slots : CreateStep(s)

SpecAlloc == Init /\ [][NextAlloc]_vars

\* connections of both modes, relay events and disconnects
NextSock ==
  \/ BeginCreate(InterleavedSock, MaxMeetings, {"appA"}, InstantBodies)
  \/ CreateRoom(InterleavedSock)
  \/ Connect(InterleavedSock, RoomIds, SockUsers)
  \/ Relay(InterleavedSock)
  \/ Disconnect(InterleavedSock)
  \/ \E s \in Slots :
       \/ CreateStep(s) \/ AdmitStep(s) \/ SockConnected(s) \/ MediaSet(s)
       \/ LeaveStep(s)

SpecSock == Init /\ [][NextSock]_vars

\* admission checks on any well-formed id while meetings fill, empty and expire
NextAdmit ==
  \/ BeginCreate(OneAtATimeClock, MaxMeetings, {"appA"}, TimeBodies)
  \/ BeginJoin(OneAtATimeClock, DOMAIN meetings, TimeUsers)
  \/ BeginLeave(OneAtATimeClock, ActivePairs)
  \/ BeginValidate(OneAtATimeClock, RoomIds)
  \/ Tick
  \/ \E s \in Slots :
       \/ CreateStep(s) \/ AdmitStep(s) \/ CanJoinExpire(s) \/ JoinStep(s)
       \/ LeaveStep(s)

SpecAdmit == Init /\ [][NextAdmit]_vars

\* subscriptions (url and secret given or absent, ""), the test route and
\* legacy connections with their webhooks
NextHook ==
  \/ Subscribe(InterleavedHook, Apps, {"", "https://hooks.example/a"}, {"", "s3cret"})
  \/ BeginTest(InterleavedHook, Apps)
  \/ CreateRoom(InterleavedHook)
  \/ Connect(InterleavedHook, {}, SockUsers)
  \/ Disconnect(InterleavedHook)
  \/ \E s \in Slots : HookPost(s)

SpecHook == Init /\ [][NextHook]_vars

\* the /:meetingId routes called with well-formed and malformed identifiers
NextRoute ==
  \/ BeginCreate(OneAtATimeRoute, MaxMeetings, {"appA"}, InstantBodies)
  \/ RejectId(OneAtATimeRoute, PathParams)
  \/ BeginValidate(OneAtATimeRoute, Accepted(PathParams))
  \/ BeginJoin(OneAtATimeRoute, Accepted(PathParams), SockUsers)
  \/ BeginLeave(OneAtATimeRoute, Accepted(PathParams) \X SockUsers)
  \/ BeginStatus(OneAtATimeRoute, Accepted(PathParams))
  \/ BeginEnd(OneAtATimeRoute, Accepted(PathParams))
  \/ BeginCancel(OneAtATimeRoute, Accepted(PathParams))
  \/ BeginUpdate(OneAtATimeRoute, Accepted(PathParams))
  \/ BeginCleanup(OneAtATimeRoute, Accepted(PathParams))
  \/ \E s \in Slots :
       \/ CreateStep(s) \/ AdmitStep(s) \/ JoinStep(s) \/ LeaveStep(s)
       \/ EndStep(s) \/ UpdateSet(s) \/ StatusFind(s) \/ StatusActive(s)

SpecRoute == Init /\ [][NextRoute]_vars

\* meetings of two tenants created, used, ended, cancelled, cleaned up and
\* expired, one operation at a time, while further meetings are created
NextLedger ==
  \/ BeginCreate([par |-> 1, calls |-> MaxLedgerCalls], MaxLedgerMeetings, Apps, TimeBodies)
  \/ BeginJoin([par |-> 1, calls |-> MaxLedgerCalls], DOMAIN meetings, SockUsers)
  \/ BeginLeave([par |-> 1, calls |-> MaxLedgerCalls], ActivePairs)
  \/ BeginEnd([par |-> 1, calls |-> MaxLedgerCalls], DOMAIN meetings)
  \/ BeginCancel([par |-> 1, calls |-> MaxLedgerCalls], DOMAIN meetings)
  \/ BeginCleanup([par |-> 1, calls |-> MaxLedgerCalls], DOMAIN meetings)
  \/ BeginValidate([par |-> 1, calls |-> MaxLedgerCalls], DOMAIN meetings)
  \/ Tick
  \/ \E s \in Slots :
       \/ CreateStep(s) \/ AdmitStep(s) \/ CanJoinExpire(s) \/ JoinStep(s)
       \/ LeaveStep(s) \/ EndStep(s)

SpecLedger == Init /\ [][NextLedger]_vars

\* joinMeeting through the API followed by connections of both modes, their
\* relay events and their disconnects
NextPresence ==
  \/ BeginCreate([par |-> 1, calls |-> MaxPresenceCalls], MaxMeetings, {"appA"}, InstantBodies)
  \/ BeginJoin([par |-> 1, calls |-> MaxPresenceCalls], DOMAIN meetings, TimeUsers)
  \/ CreateRoom([par |-> 1, calls |-> MaxPresenceCalls])
  \/ Connect([par |-> 1, calls |-> MaxPresenceCalls], DOMAIN meetings, TimeUsers)
  \/ Relay([par |-> 1, calls |-> MaxPresenceCalls])
  \/ Disconnect([par |-> 1, calls |-> MaxPresenceCalls])
  \/ \E s \in Slots :
       \/ CreateStep(s) \/ AdmitStep(s) \/ JoinStep(s) \/ SockConnected(s)
       \/ MediaSet(s) \/ LeaveStep(s)

SpecPresence == Init /\ [][NextPresence]_vars

\* connections of both modes and their disconnects while the tenant of the
\* rooms and meetings has a webhook endpoint or none
NextNotify ==
  \/ Subscribe([par |-> 1, calls |-> MaxNotifyCalls], {"appA"}, {"https://hooks.example/a"}, {""})
  \/ BeginCreate([par |-> 1, calls |-> MaxNotifyCalls], MaxMeetings, {"appA"}, InstantBodies)
  \/ CreateRoom([par |-> 1, calls |-> MaxNotifyCalls])
  \/ Connect([par |-> 1, calls |-> MaxNotifyCalls], DOMAIN meetings, SockUsers)
  \/ Disconnect([par |-> 1, calls |-> MaxNotifyCalls])
  \/ \E s \in Slots :
       \/ CreateStep(s) \/ AdmitStep(s) \/ SockConnected(s) \/ LeaveStep(s)
       \/ HookPost(s)

SpecNotify == Init /\ [][NextNotify]_vars

\* meeting-mode connections of up to MaxUsers users to a meeting with a
\* checked limit, without joinMeeting
NextRoom ==
  \/ BeginCreate([par |-> 1, calls |-> MaxRoomCalls], MaxMeetings, {"appA"}, InstantBodies)
  \/ Connect([par |-> 1, calls |-> MaxRoomCalls], DOMAIN meetings, Users)
  \/ Disconnect([par |-> 1, calls |-> MaxRoomCalls])
  \/ \E s \in Slots :
       CreateStep(s) \/ AdmitStep(s) \/ SockConnected(s) \/ LeaveStep(s)

SpecRoom == Init /\ [][NextRoom]_vars

(***************************************************************************)
(* Properties.                                                             *)
(***************************************************************************)
\* the Participant documents of one (meetingId, userId)
RecordsOf(m, u) ==
  {i \in 1..Len(participants) :
     participants[i].meetingId = m /\ participants[i].userId = u}

\* the users with a joined or connected document in meeting m
ActiveUsers(m) ==
  {participants[i].userId : i \in {j \in 1..Len(participants) :
     participants[j].meetingId = m /\ participants[j].status \in {"joined", "connected"}}}

\* slot s takes a step
Steps(s) == tasks'[s] # tasks[s]
\* slot s returns to its caller
Returns(s) == tasks[s].op # "idle" /\ tasks'[s].op = "idle"

\* C1: no two generateUniqueRoomId calls that return successfully return the
\* same identifier, whatever the tenants and however the calls interleave;
\* the ledger holds one reservation per identifier.
C1_UniqueAllocation ==
  /\ \A id \in RoomIds : returned[id] <= 1
  /\ \A r1 \in ledger, r2 \in ledger : r1.roomId = r2.roomId => r1 = r2

\* two calls have returned different identifiers, one of them after losing
\* the race for the other's candidate at least once
C1_Witness ==
  /\ \A id \in RoomIds : returned[id] = 1
  /\ \E s \in Slots : tasks[s].pc = "save" /\ tasks[s].att >= 1

\* C2: a relay event sent by an open connection bound to room M goes to
\* every other connection in M's room and to no one else: never to a
\* connection bound to a different room, never back to the sender; and the
\* members of a room are exactly connections bound to it.
C2_RelayIsolation ==
  /\ [](\A k \in RoomKeys : \A c \in rooms[k] :
          conns[c].state = "open" /\ conns[c].room = k)
  /\ [][lastEmit'.ev \in RelayEvents =>
          LET a == lastEmit'.from
              M == conns[a].room
          IN /\ conns[a].state = "open"
             /\ \A b \in ConnIds : b \in lastEmit'.to <=> (b # a /\ b \in rooms[M])
             /\ \A b \in lastEmit'.to : conns[b].room = M
             /\ a \notin lastEmit'.to]_vars

\* a relay event has just reached another member of the sender's room while
\* a connection bound to a different room is open
C2_Witness ==
  /\ lastEmit.ev \in RelayEvents
  /\ lastEmit.to # {}
  /\ \E c \in ConnIds :
       conns[c].state = "open" /\ conns[c].room # conns[lastEmit.from].room

\* canJoinMeeting(m, u) would allow: the meeting exists, is created,
\* scheduled or active, is not past its expiry, and is not full for u
Admissible(m, u) ==
  /\ m \in DOMAIN meetings
  /\ meetings[m].status \in {"created", "scheduled", "active"}
  /\ ~(meetings[m].expiresAt # NULL /\ now > meetings[m].expiresAt)
  /\ (meetings[m].maxParticipants \in 1..99 =>
        Cardinality(ActiveUsers(m) \ {u}) < meetings[m].maxParticipants)

\* the middleware's answer to the handshake h of connection h.c
HandshakeTable(h) ==
  LET c == h.c
      cred == h.hm # "" /\ h.hu # NoUser
      asked == \E s \in Slots :
                 /\ tasks'[s].op = "connect" /\ tasks'[s].c = c
                 /\ tasks'[s].pc = "cj_find"
                 /\ tasks'[s].m = h.hm /\ tasks'[s].u = h.hu
  IN /\ h.tok = "ok" => conns'[c].mode = "jwt" /\ conns'[c].state \in {"open", "closed"}
     /\ (h.tok = "bad" /\ ~cred) =>
          conns'[c].state = "rejected" /\ last'.res = "Invalid token" /\ ~asked
     /\ (h.tok # "ok" /\ cred) => conns'[c].state = "handshake" /\ asked
     /\ (h.tok = "none" /\ ~cred) =>
          conns'[c].state = "rejected" /\ last'.res = AuthRequired /\ ~asked

\* the admission check of slot s settles its connection
AdmissionSettled(s) ==
  LET c == tasks[s].c
      m == tasks[s].m
      u == tasks[s].u
  IN /\ Returns(s) =>
          /\ ~Admissible(m, u)
          /\ conns'[c].state = "rejected"
          /\ last'.c = c /\ last'.res # "connected"
     /\ tasks'[s].pc = "s_connected" =>
          /\ Admissible(m, u)
          /\ conns'[c] = [state |-> "admitted", mode |-> "meeting", room |-> m,
                          user |-> u, app |-> "public"]
     /\ tasks'[s].pc \in {"cj_expire", "cj_active"} => conns'[c].state = "handshake"

\* C3: a verified token binds the connection in session-token mode; a
\* refused token without meetingId+userId is rejected with "Invalid token";
\* a refused or absent token with meetingId+userId is decided by
\* canJoinMeeting(meetingId, userId); with neither the connection is
\* rejected; a rejected connection is in no room.
C3_AdmissionDecision ==
  /\ [](\A c \in ConnIds : conns[c].state = "rejected" =>
          \A k \in RoomKeys : c \notin rooms[k])
  /\ [][lastHs'.c # 0 => HandshakeTable(lastHs')]_vars
  /\ [][\A s \in Slots :
          (tasks[s].op = "connect" /\ tasks[s].pc # "s_connected" /\ Steps(s))
            => AdmissionSettled(s)]_vars

\* a refused token came with meetingId+userId and the decision is with
\* canJoinMeeting, after an earlier connection was rejected
C3_Witness ==
  /\ lastHs.tok = "bad" /\ lastHs.hm # "" /\ lastHs.hu # NoUser
  /\ conns[lastHs.c].state = "handshake"
  /\ \E d \in ConnIds : conns[d].state = "rejected"

\* C4: with the calls executed one at a time, there is at most one
\* Participant document per (meetingId, userId), and when a Join has just
\* succeeded the single document of its (m, u) has status joined.
C4_IdempotentJoin ==
  /\ \A m \in RoomIds, u \in Users : Cardinality(RecordsOf(m, u)) <= 1
  /\ (last.op = "join" /\ last.res = "success") =>
       /\ Cardinality(RecordsOf(last.m, last.u)) = 1
       /\ \A i \in RecordsOf(last.m, last.u) : participants[i].status = "joined"

\* a Join has just succeeded for a user whose document was created by an
\* earlier Join and who has never left
C4_Witness ==
  /\ last.op = "join" /\ last.res = "success"
  /\ \E i \in RecordsOf(last.m, last.u) :
       participants[i].joinedAt < now /\ participants[i].leftAt = NULL

\* C5: two Join calls for the same (m, u) that interleave at their storage
\* round-trips leave a single Participant document for (m, u).
C5_SingleRecordUnderRace ==
  \A m \in RoomIds, u \in Users : Cardinality(RecordsOf(m, u)) <= 1

C7_CapacityUnderRace ==
  \A m \in DOMAIN meetings :
    meetings[m].maxParticipants \in 1..99 =>
      Cardinality(ActiveUsers(m)) <= meetings[m].maxParticipants

\* C8: once a meeting has been completed (endedAt is set), every Join that
\* starts later is denied at its first check with a reason naming the status.
C8_NoJoinAfterCompletion ==
  [][\A s \in Slots :
       (/\ tasks[s].op = "join" /\ tasks[s].pc = "cj_find" /\ Steps(s)
        /\ tasks[s].m \in DOMAIN meetings
        /\ meetings[tasks[s].m].endedAt # NULL)
       => /\ Returns(s)
          /\ meetings[tasks[s].m].status \notin {"created", "scheduled", "active"}
          /\ last'.res = "Meeting is " \o meetings[tasks[s].m].status]_vars

\* C9: a meeting whose status is completed, expired or cancelled keeps that
\* status whatever operation runs.
C9_TerminalStatusFinal ==
  [][\A m \in DOMAIN meetings :
       meetings[m].status \in {"completed", "expired", "cancelled"}
         => meetings'[m].status = meetings[m].status]_vars

\* C10: createMeeting with scheduledAt = T and duration D stores status
\* scheduled and expiresAt = T + D + the buffer; an admission check made after
\* expiresAt on a meeting still created or scheduled sets the status to
\* expired and answers "Meeting has expired"; nothing else expires a meeting.
C10_LazyExpiry ==
  /\ [][\A s \in Slots :
          (/\ tasks[s].op = "create" /\ tasks[s].pc = "save" /\ Returns(s)
           /\ tasks[s].m \notin DOMAIN meetings
           /\ tasks[s].arg.scheduledAt # NULL)
          => /\ meetings'[tasks[s].m].status = "scheduled"
             /\ meetings'[tasks[s].m].expiresAt =
                  tasks[s].arg.scheduledAt + tasks[s].arg.durationMinutes
                    + ExpiryBufferMinutes]_vars
  /\ [][\A s \in Slots :
          (/\ tasks[s].pc = "cj_find" /\ Steps(s)
           /\ tasks[s].m \in DOMAIN meetings
           /\ meetings[tasks[s].m].status \in {"created", "scheduled"}
           /\ meetings[tasks[s].m].expiresAt # NULL
           /\ now > meetings[tasks[s].m].expiresAt)
          => tasks'[s].pc = "cj_expire" /\ UNCHANGED meetings]_vars
  /\ [][\A s \in Slots :
          (tasks[s].pc = "cj_expire" /\ Steps(s))
          => /\ Returns(s)
             /\ meetings'[tasks[s].m].status = "expired"
             /\ last'.op = tasks[s].op
             /\ last'.res = "Meeting has expired"]_vars
  /\ [][\A m \in DOMAIN meetings :
          (meetings[m].status # "expired" /\ meetings'[m].status = "expired")
            => \E s \in Slots : tasks[s].pc = "cj_expire" /\ tasks[s].m = m]_vars

\* a Join on a scheduled meeting past its expiry has just been denied and
\* the meeting is expired
C10_Witness ==
  /\ last.op = "join" /\ last.res = "Meeting has expired"
  /\ meetings[last.m].status = "expired"
  /\ meetings[last.m].scheduledAt # NULL
  /\ meetings[last.m].expiresAt =
       meetings[last.m].scheduledAt + meetings[last.m].durationMinutes
         + ExpiryBufferMinutes

\* C11: every meeting whose expiresAt is set has expiresAt = scheduledAt +
\* durationMinutes + the buffer, and expiresAt >= scheduledAt, also after
\* updateMeeting changed scheduledAt or durationMinutes.
C11_ExpiryDerived ==
  \A m \in DOMAIN meetings :
    meetings[m].expiresAt # NULL
      => /\ meetings[m].expiresAt =
              meetings[m].scheduledAt + meetings[m].durationMinutes
                + ExpiryBufferMinutes
         /\ meetings[m].expiresAt >= meetings[m].scheduledAt

\* C12: a Join on a well-formed meetingId that has no Meeting document
\* returns the denial "Meeting not found" after its first read, and neither
\* the call nor its start creates or changes a Meeting or a Participant.
C12_JoinUnknownMeeting ==
  [][\A s \in Slots :
       /\ (/\ tasks[s].op = "join" /\ Steps(s)
           /\ tasks[s].m \notin DOMAIN meetings)
          => /\ Returns(s)
             /\ last' = [op |-> "join", m |-> tasks[s].m, u |-> tasks[s].u,
                         c |-> 0, res |-> "Meeting not found",
                         turn |-> NoResult.turn]
             /\ UNCHANGED <<meetings, participants>>
       /\ (/\ tasks[s].op = "idle" /\ tasks'[s].op = "join"
           /\ tasks'[s].m \notin DOMAIN meetings)
          => UNCHANGED <<meetings, participants>>]_vars

\* a Join on an id without a meeting was just denied while another meeting
\* with a participant exists
C12_Witness ==
  /\ last.op = "join" /\ last.res = "Meeting not found"
  /\ last.m \notin DOMAIN meetings
  /\ DOMAIN meetings # {}
  /\ Len(participants) > 0

\* the admission check of slot s answers { allowed: true } to its caller
Allows(s) ==
  IF tasks[s].op = "validate"
    THEN Returns(s) /\ last'.res = "allowed"
    ELSE tasks'[s].pc = (IF tasks[s].op = "join" THEN "j_find" ELSE "s_connected")

\* the admission check of slot s answers { allowed: false, reason }
Denies(s, reason) ==
  Returns(s) /\ last'.op = tasks[s].op /\ last'.res = reason

\* the active Participant documents of m that belong to a user other than u
OthersActive(m, u) ==
  {i \in 1..Len(participants) :
     /\ participants[i].meetingId = m
     /\ participants[i].status \in {"joined", "connected"}
     /\ (u = NoUser \/ participants[i].userId # u)}

\* C13: canJoinMeeting checks, in this order, that the meeting exists
\* ("Meeting not found"), that its status is created, scheduled or active
\* ("Meeting is <status>"), that the time is not after expiresAt ("Meeting
\* has expired") and that the limit, when it is between 1 and 99, exceeds the
\* number of other active participants ("Meeting is full"); it allows
\* exactly when all four pass, and the four reasons differ from one another.
C13_AdmissionOrder ==
  /\ [][\A s \in Slots :
          (tasks[s].pc = "cj_find" /\ Steps(s)) =>
            LET m == tasks[s].m IN
            IF m \notin DOMAIN meetings THEN Denies(s, "Meeting not found")
            ELSE IF meetings[m].status \notin {"created", "scheduled", "active"}
              THEN Denies(s, "Meeting is " \o meetings[m].status)
            ELSE IF meetings[m].expiresAt # NULL /\ now > meetings[m].expiresAt
              THEN tasks'[s].pc = "cj_expire"
            ELSE IF meetings[m].maxParticipants \in 1..99
              THEN tasks'[s].pc = "cj_active"
            ELSE Allows(s)]_vars
  /\ [][\A s \in Slots :
          (tasks[s].pc = "cj_expire" /\ Steps(s))
            => Denies(s, "Meeting has expired")]_vars
  /\ [][\A s \in Slots :
          (tasks[s].pc = "cj_active" /\ Steps(s)) =>
            IF Cardinality(OthersActive(tasks[s].m, tasks[s].u))
                 >= meetings[tasks[s].m].maxParticipants
              THEN Denies(s, "Meeting is full")
              ELSE Allows(s)]_vars
  /\ [](\A m \in DOMAIN meetings :
          /\ Cardinality({"Meeting not found", "Meeting has expired",
                          "Meeting is full",
                          "Meeting is " \o meetings[m].status}) = 4)

\* a check on a meeting that is both past its expiry and at its limit has
\* just been denied with the reason of the earlier check
C13_Witness ==
  /\ last.op = "validate" /\ last.res = "Meeting has expired"
  /\ meetings[last.m].maxParticipants \in 1..99
  /\ Cardinality(OthersActive(last.m, NoUser)) >= meetings[last.m].maxParticipants

\* C14: with the calls executed one at a time, the first storage call of End
\* and of Cancel turns every joined or connected Participant of the meeting
\* to left with leftAt set, the second one touches no Participant, and when
\* End or Cancel has just returned no Participant of the meeting is joined or
\* connected.
C14_EndForcesLeft ==
  /\ []((last.op \in {"end", "cancel"} /\ last.res = "success")
          => OthersActive(last.m, NoUser) = {})
  /\ [][\A s \in Slots :
          (tasks[s].op \in {"end", "cancel"} /\ tasks[s].pc = "e_mark" /\ Steps(s))
            => /\ Len(participants') = Len(participants)
               /\ \A i \in OthersActive(tasks[s].m, NoUser) :
                    /\ participants'[i].status = "left"
                    /\ participants'[i].leftAt # NULL]_vars
  /\ [][\A s \in Slots :
          (tasks[s].op \in {"end", "cancel"} /\ tasks[s].pc = "e_status" /\ Steps(s))
            => Returns(s) /\ UNCHANGED participants]_vars

\* Cancel has just returned on a meeting whose two participants, joined by
\* the only other calls made, were both put to left by it
C14_Witness ==
  /\ last.op = "cancel" /\ last.res = "success"
  /\ calls = 4
  /\ Cardinality({i \in 1..Len(participants) :
                    /\ participants[i].meetingId = last.m
                    /\ participants[i].status = "left"
                    /\ participants[i].leftAt # NULL}) = 2

\* C15: when a Join has just returned success, the status of its meeting is
\* active and startedAt is set, whatever other Join and Leave calls on the
\* meeting were interleaved with it.
C15_JoinActivates ==
  (last.op = "join" /\ last.res = "success")
    => /\ meetings[last.m].status = "active"
       /\ meetings[last.m].startedAt # NULL

\* the attempts logged for the dispatchWebhook call id, in order
PostsOf(id) == SelectSeq(posts, LAMBDA e : e.id = id)

\* C16: the attempts of one dispatchWebhook call are made one per step, are
\* numbered 1, 2, ... and at most 5, and attempt n comes after the n-th wait
\* of [0, 30, 120, 600, 1800] seconds; an attempt answered 2xx ends the call,
\* any other answer and a transport error go on to the next attempt, and the
\* fifth failure ends the call; so no attempt of a call follows a 2xx answer.
C16_RetrySchedule ==
  /\ [][\A s \in Slots :
          (tasks[s].pc = "h_post" /\ Steps(s)) =>
            LET e == posts'[Len(posts')] IN
            /\ posts' = Append(posts, e)
            /\ e.id = tasks[s].arg.id
            /\ e.n = Len(PostsOf(e.id)) + 1
            /\ e.n <= 5
            /\ e.wait = <<0, 30, 120, 600, 1800>>[e.n]
            /\ Returns(s) <=> (e.resp \in 200..299 \/ e.n = 5)
            /\ (Returns(s) /\ tasks[s].op = "notify") =>
                 last'.res = (IF e.resp \in 200..299 THEN "delivered" ELSE "failed")]_vars
  /\ [][posts' # posts => \E s \in Slots : tasks[s].pc = "h_post" /\ Steps(s)]_vars
  /\ [](\A i, j \in 1..Len(posts) :
          (i < j /\ posts[i].id = posts[j].id)
            => posts[i].n < posts[j].n /\ posts[i].resp \notin 200..299)

\* an endpoint answered 500, 500, 500 and then 200 to one call, which has
\* just ended as delivered after exactly these four attempts
C16_Witness ==
  /\ last.op = "notify" /\ last.res = "delivered"
  /\ \E id \in 1..MaxHookCalls :
       LET P == PostsOf(id) IN
       /\ Len(P) = 4
       /\ [k \in 1..4 |-> P[k].resp] = <<500, 500, 500, 200>>
       /\ [k \in 1..4 |-> P[k].wait] = <<0, 30, 120, 600>>
       /\ posts[Len(posts)].id = id

\* the signature prescribed for a timestamp, a body and the
\* subscription's secret ("" when unset)
SignatureFor(timestamp, body, secret) ==
  "sha256=" \o HmacSha256(timestamp \o "." \o body,
                          IF secret # "" THEN secret ELSE "webhook-secret")

\* C17: the X-Signature header a dispatchWebhook call builds is "sha256="
\* followed by the hex HMAC-SHA256, under the subscription's secret or the
\* default secret when that is unset, of X-Timestamp, "." and the JSON text
\* of the payload; every attempt of the call sends these headers and that
\* JSON text as its body.
C17_Signature ==
  /\ [][\A s \in Slots :
          (tasks[s].op = "idle" /\ tasks'[s].pc = "h_post") =>
            LET h == tasks'[s].arg.headers IN
            /\ h["X-Timestamp"] = ToString(now)
            /\ h["X-Signature"] =
                 SignatureFor(h["X-Timestamp"], JsonStringify(tasks'[s].arg.payload),
                              apps[tasks'[s].app].webhookSecret)]_vars
  /\ [][\A s \in Slots :
          (tasks[s].pc = "h_post" /\ Steps(s)) =>
            /\ posts'[Len(posts')].headers = tasks[s].arg.headers
            /\ posts'[Len(posts')].body = JsonStringify(tasks[s].arg.payload)]_vars
  /\ [](\A i, j \in 1..Len(posts) :
          posts[i].id = posts[j].id
            => posts[i].headers = posts[j].headers /\ posts[i].body = posts[j].body)
  /\ [](\A secret \in {"", "s3cret"}, timestamp \in {"0", "1700000000000"},
          payload \in {<<(<<"hello", "world">>)>>,
                       <<(<<"roomId", "room_1">>), (<<"userId", "1">>)>>} :
          HookHeaders([webhookUrl |-> "https://hooks.example/a", webhookSecret |-> secret],
                      "appA", "user.joined", payload, timestamp)["X-Signature"]
            = SignatureFor(timestamp, JsonStringify(payload), secret))

\* the second attempt of a test event has been made; it carries the body
\* {"hello":"world"} and the signature under the secret the app subscribed
C17_Witness ==
  \E i \in 1..Len(posts) :
    /\ posts[i].n = 2
    /\ posts[i].body = "{\"hello\":\"world\"}"
    /\ posts[i].headers["X-Signature"] =
         "sha256=" \o HmacSha256(posts[i].headers["X-Timestamp"] \o "." \o posts[i].body,
                                 "s3cret")

\* C18: the operation that triggers a webhook is answered without waiting
\* for a retry and without failing: a legacy connection is answered
\* "connected" in the very step that dispatches its user.joined event, the
\* test route answers ok before any wait of the retry schedule has been
\* made, and the end of a delivery changes no connection, room or record.
C18_NotifyDecoupled ==
  /\ [][\A s \in Slots :
          (tasks[s].op = "idle" /\ tasks'[s].op = "notify")
            => (last'.op = "connect" /\ last'.res = "connected") \/ last' = NoResult]_vars
  /\ [][\A s \in Slots :
          (tasks[s].op = "test" /\ Returns(s))
            => last'.res = "ok" /\ posts'[Len(posts')].wait = 0]_vars
  /\ [][\A s \in Slots :
          (tasks[s].pc = "h_post" /\ Steps(s)) => UNCHANGED <<data, sock>>]_vars

\* connection c is bound to a registered app that has no endpoint url
Unconfigured(c) ==
  /\ conns'[c].mode = "jwt"
  /\ conns'[c].app \in DOMAIN apps
  /\ apps[conns'[c].app].webhookUrl = ""

\* C19: dispatchWebhook for an app without endpoint url makes no attempt and
\* schedules none: the legacy connection or disconnect that calls it goes
\* through (the connection is answered "connected"), no delivery is started
\* and nothing is posted; no call ever makes a first attempt without a url.
C19_NoEndpointNoAttempt ==
  /\ [][\A c \in ConnIds :
          (conns[c].state = "none" /\ conns'[c].state = "open" /\ Unconfigured(c))
            => /\ last'.res = "connected"
               /\ tasks' = tasks /\ posts' = posts]_vars
  /\ [][\A c \in ConnIds :
          (conns[c].state = "open" /\ conns'[c].state = "closed" /\ Unconfigured(c))
            => tasks' = tasks /\ posts' = posts]_vars
  /\ [](\A i \in 1..Len(posts) : posts[i].n = 1 => posts[i].url # "")

\* a legacy connection of the seeded app, which has no endpoint, has just
\* been answered and no delivery exists
C19_Witness ==
  /\ last.op = "connect" /\ last.res = "connected"
  /\ conns[last.c].app \in DOMAIN apps
  /\ apps[conns[last.c].app].webhookUrl = ""
  /\ Busy = {} /\ posts = <<>>

\* the pattern of the identifiers: 3 lowercase letters, dash, 4 digits, dash,
\* 3 lowercase letters
MatchesPattern(chars) ==
  /\ Len(chars) = 3 + 1 + 4 + 1 + 3
  /\ \A i \in 1..Len(chars) :
       IF i \in {4, 9} THEN chars[i] = "-"
       ELSE IF i \in 5..8 THEN chars[i] \in {ToString(d) : d \in 0..9}
       ELSE chars[i] \in LowerCase

\* C20: a request on a /:meetingId route (validate, join, leave, status, end,
\* cancel, update, cleanup) whose identifier does not match the pattern is
\* answered "Invalid meeting ID format" in the step it arrives, without a
\* storage call: no operation on such an identifier is ever in progress and
\* the answering step leaves every collection as it was.
C20_MalformedIdRejected ==
  /\ [](\A p \in PathParams :
          ~MatchesPattern(p) =>
            /\ \A s \in Slots : tasks[s].m # Spell(p)
            /\ (last.op \in RouteOps /\ last.m = Spell(p))
                 => last.res = "Invalid meeting ID format")
  /\ [][\A p \in PathParams :
          (~MatchesPattern(p) /\ last'.op \in RouteOps /\ last'.m = Spell(p))
            => UNCHANGED <<data, tasks>>]_vars

\* a validate request on an identifier in upper case has just been answered
\* while a meeting with a participant exists
C20_Witness ==
  /\ last.op = "validate" /\ last.m = "ABC-1234-XYZ"
  /\ last.res = "Invalid meeting ID format"
  /\ DOMAIN meetings # {} /\ Len(participants) > 0

\* C21: generateUniqueRoomId makes at most MaxAttemptsDefault reservation
\* attempts: a call in its loop has conflicted fewer than MaxAttemptsDefault
\* times; a conflict before the last attempt keeps the call in the loop with
\* one more attempt counted and the ledger as it was; the call fails only
\* when its last attempt conflicts; and it leaves the loop with an identifier
\* only when that identifier was not reserved before the step and this step
\* inserted it for the caller's tenant.
C21_BoundedAttempts ==
  /\ [](\A s \in Slots :
          tasks[s].pc = "alloc" => tasks[s].att \in 0..(MaxAttemptsDefault - 1))
  /\ [][\A s \in Slots :
          (tasks[s].pc = "alloc" /\ tasks'[s] # tasks[s]) =>
            \/ /\ tasks'[s].pc = "alloc"
               /\ tasks'[s].att = tasks[s].att + 1
               /\ ledger' = ledger
            \/ /\ tasks'[s].pc = "save"
               /\ tasks'[s].m \notin LedgerIds(ledger)
               /\ ledger' = ledger \cup
                    {[roomId |-> tasks'[s].m, appId |-> tasks[s].app]}
            \/ /\ tasks'[s].op = "idle"
               /\ tasks[s].att = MaxAttemptsDefault - 1
               /\ ledger' = ledger
               /\ last'.res = "Failed to generate unique room ID"]_vars

\* a call has just failed after every one of its attempts conflicted with
\* the reservations of two earlier calls
C21_Witness ==
  /\ last.op = "create"
  /\ last.res = "Failed to generate unique room ID"
  /\ LedgerIds(ledger) = RoomIds

\* C22: the reservation ledger only grows: no step of create, join, leave,
\* end, cancel, cleanup or the expiry of a meeting removes a reservation or
\* changes its tenant, every meeting's identifier stays reserved, and a
\* generateUniqueRoomId call returns an identifier only if it was not
\* reserved before, so the identifier of a completed, expired or cancelled
\* meeting is never returned again.
C22_LedgerOnlyGrows ==
  /\ [](/\ \A r1 \in ledger, r2 \in ledger : r1.roomId = r2.roomId => r1 = r2
        /\ \A m \in DOMAIN meetings :
             [roomId |-> m, appId |-> meetings[m].appId] \in ledger
        /\ \A id \in RoomIds : returned[id] <= 1)
  /\ [][/\ ledger \subseteq ledger'
        /\ \A id \in RoomIds :
             returned'[id] # returned[id] =>
               /\ id \notin DOMAIN meetings
               /\ \A r \in ledger : r.roomId # id]_vars

\* the only meeting so far has ended, been cancelled or expired, and a later
\* createMeeting has drawn its identifier, conflicted and is drawing again
C22_Witness ==
  /\ Cardinality(DOMAIN meetings) = 1
  /\ \A m \in DOMAIN meetings :
       meetings[m].status \in {"completed", "expired", "cancelled"}
  /\ \E s \in Slots :
       tasks[s].op = "create" /\ tasks[s].pc = "alloc" /\ tasks[s].att >= 1

\* C23: a successful joinMeeting at time now answers with the credentials
\* username = "<now in seconds + ttlSeconds>:<appId of the meeting>" and
\* credential = HMAC-SHA1 of that username under the static secret, a value
\* fixed by now, tenant, TTL and secret, so two calls that agree on them get
\* the same credentials; no other answer carries credentials; and the step
\* that issues them changes no reservation, no meeting, no app and no
\* participant record other than the one joinMeeting writes for the caller.
C23_TurnCredentials ==
  /\ [](IF last.op = "join" /\ last.res = "success"
          THEN LET username == ToString(now * 60 + TurnTtlSeconds) \o ":"
                                 \o meetings[last.m].appId
               IN last.turn =
                    [username |-> username,
                     credential |-> "hmac-sha1-base64[change-me](" \o username \o ")",
                     ttl |-> TurnTtlSeconds]
          ELSE last.turn = [username |-> "", credential |-> "", ttl |-> 0])
  /\ [][(last'.op = "join" /\ last'.res = "success") =>
          /\ UNCHANGED <<ledger, meetings, apps, clk>>
          /\ Len(participants') \in {Len(participants), Len(participants) + 1}
          /\ \A i \in 1..Len(participants) :
               participants'[i] # participants[i] =>
                 /\ participants[i].meetingId = last'.m
                 /\ participants[i].userId = last'.u]_vars

\* a Join on a meeting of the second tenant has just been answered with
\* credentials, after time has passed
C23_Witness ==
  /\ last.op = "join" /\ last.res = "success"
  /\ meetings[last.m].appId = "appB"
  /\ clk > 1
  /\ last.turn.username = ToString(Instants[clk] * 60 + 600) \o ":appB"

\* C24: a meeting's status changes to expired only from created or
\* scheduled; an admission check made after the expiresAt of an active
\* meeting leaves it active.
C24_ExpireOnlyBeforeActive ==
  [][\A m \in DOMAIN meetings :
       (meetings'[m].status = "expired" /\ meetings[m].status # "expired")
         => meetings[m].status \in {"created", "scheduled"}]_vars

\* C25: a meeting's status changes to completed only from active: End, Leave
\* or a disconnect on a meeting that is still created or scheduled, such as
\* a Leave by a user who never joined, does not complete it.
C25_CompleteOnlyFromActive ==
  [][\A m \in DOMAIN meetings :
       (meetings'[m].status = "completed" /\ meetings[m].status # "completed")
         => meetings[m].status = "active"]_vars

\* C26: when a connection admitted in meeting mode has been joined to its
\* room, a Participant document of its (meetingId, userId) has status
\* connected with connectedAt set and the meeting is active, also when no
\* joinMeeting preceded the connection.
C26_ConnectRecordsPresence ==
  [][\A c \in ConnIds :
       (/\ conns[c].state # "open" /\ conns'[c].state = "open"
        /\ conns'[c].mode = "meeting")
         => /\ c \in rooms'[conns'[c].room]
            /\ \E i \in 1..Len(participants') :
                 /\ participants'[i].meetingId = conns'[c].room
                 /\ participants'[i].userId = conns'[c].user
                 /\ participants'[i].status = "connected"
                 /\ participants'[i].connectedAt # NULL
            /\ meetings'[conns'[c].room].status = "active"]_vars

\* C27: when an open meeting-mode connection disconnects, user-left goes to
\* every other member of its room, and when the leaveMeeting it starts has
\* returned, a Participant document of its (meetingId, userId) has status
\* left with leftAt set and, if no joined or connected participant remains,
\* the meeting is completed.
C27_DisconnectLeaves ==
  /\ [][\A c \in ConnIds :
          (conns[c].state = "open" /\ conns'[c].state = "closed"
             /\ conns[c].mode = "meeting")
            => lastEmit' = [from |-> c, ev |-> "user-left",
                            to |-> rooms[conns[c].room] \ {c}]]_vars
  /\ [](last.op = "disconnect" =>
          /\ \E i \in RecordsOf(last.m, last.u) :
               participants[i].status = "left" /\ participants[i].leftAt # NULL
          /\ ActiveUsers(last.m) = {} => meetings[last.m].status = "completed")

\* the tenant whose subscription a connection's notifications belong to:
\* the app of a session token, the appId of the meeting in meeting mode
TenantOf(c) ==
  IF conns'[c].mode = "jwt" THEN conns'[c].app ELSE meetings[conns'[c].room].appId

\* the deliveries of event ev that the step starts
Dispatched(ev) ==
  {s \in Slots : /\ tasks[s].op = "idle" /\ tasks'[s].op = "notify"
                 /\ tasks'[s].arg.headers["X-Event"] = ev}

\* C28: whenever a connection of either mode is admitted into its room,
\* and whenever such a connection disconnects, one delivery of user.joined,
\* respectively user.left, to the endpoint of the connection's tenant starts
\* in that step.
C28_NotifyBothModes ==
  /\ [][\A c \in ConnIds :
          (/\ conns[c].state # "open" /\ conns'[c].state = "open"
           /\ TenantOf(c) \in DOMAIN apps /\ apps[TenantOf(c)].webhookUrl # "")
            => Cardinality(Dispatched("user.joined")) = 1]_vars
  /\ [][\A c \in ConnIds :
          (/\ conns[c].state = "open" /\ conns'[c].state = "closed"
           /\ TenantOf(c) \in DOMAIN apps /\ apps[TenantOf(c)].webhookUrl # "")
            => Cardinality(Dispatched("user.left")) = 1]_vars

\* C29: the write a user-media-updated or screen-share event of a
\* meeting-mode connection makes changes the mediaState of the Participant
\* document of that connection's (meetingId, userId), which becomes the state
\* the event carries, and nothing else: no other document, no other field,
\* no meeting, no reservation; the step that relays an event changes no
\* stored state, and an event of a session-token connection starts no write.
C29_MediaStateOwnRecord ==
  /\ [][\A s \in Slots :
          (tasks[s].pc = "m_set" /\ tasks'[s] # tasks[s]) =>
            /\ UNCHANGED <<ledger, meetings, legacy, apps>>
            /\ Len(participants') = Len(participants)
            /\ \A i \in 1..Len(participants) :
                 IF participants'[i] # participants[i]
                   THEN /\ participants[i].meetingId = conns[tasks[s].c].room
                        /\ participants[i].userId = conns[tasks[s].c].user
                        /\ participants'[i] =
                             [participants[i] EXCEPT !.mediaState = tasks[s].arg]
                   ELSE TRUE
            /\ \A i \in RecordsOf(conns[tasks[s].c].room, conns[tasks[s].c].user) :
                 (\A j \in RecordsOf(conns[tasks[s].c].room, conns[tasks[s].c].user) :
                    i <= j) => participants'[i].mediaState = tasks[s].arg]_vars
  /\ [][lastEmit'.ev \in RelayEvents =>
          /\ UNCHANGED <<ledger, meetings, participants, legacy, apps>>
          /\ conns[lastEmit'.from].mode = "jwt" => tasks' = tasks]_vars

\* the camera of user 1 went off through a meeting-mode connection: the
\* document of user 1 holds the new state and the document of another
\* participant of the same meeting holds the state it had
C29_Witness ==
  /\ last.op = "media" /\ last.res = "saved"
  /\ \E i \in RecordsOf(last.m, last.u) :
       participants[i].mediaState = [audioEnabled |-> TRUE, videoEnabled |-> FALSE]
  /\ \E j \in 1..Len(participants) :
       /\ participants[j].meetingId = last.m /\ participants[j].userId # last.u
       /\ participants[j].mediaState =
            [audioEnabled |-> TRUE, videoEnabled |-> TRUE, screenSharing |-> FALSE]

\* C30: a connection's relay events reach the other members of its room in
\* the order it sent them: every event, also a user-media-updated or
\* screen-share event whose write is awaited, is handed to the recipients in
\* the step the handler receives it, whether or not an earlier write of the
\* same connection is still pending, and the step that completes a write
\* hands over nothing.
C30_RelayOrder ==
  /\ [][\A s \in Slots :
          (tasks[s].op = "idle" /\ tasks'[s].op = "media") =>
            /\ lastEmit'.from = tasks'[s].c
            /\ lastEmit'.ev \in
                 {"user-media-updated", "screen-share-started", "screen-share-stopped"}
            /\ lastEmit'.to = rooms[conns[tasks'[s].c].room] \ {tasks'[s].c}]_vars
  /\ [][\A s \in Slots :
          (tasks[s].op = "media" /\ tasks'[s] # tasks[s]) => lastEmit' = NoEmit]_vars
  /\ [][lastEmit'.ev \in RelayEvents =>
          /\ calls' = calls + 1
          /\ conns[lastEmit'.from].state = "open"]_vars

\* an offer has just reached another member of the room while the write of
\* the sender's earlier media event is still pending
C30_Witness ==
  /\ lastEmit.ev = "webrtc-offer" /\ lastEmit.to # {}
  /\ \E s \in Slots :
       tasks[s].op = "media" /\ tasks[s].pc = "m_set" /\ tasks[s].c = lastEmit.from

\* C31: a Participant document whose leftAt is set has durationSeconds equal
\* to the whole seconds from joinedAt to leftAt (the instants are minutes).
C31_DurationOnLeave ==
  \A i \in 1..Len(participants) :
    participants[i].leftAt # NULL =>
      participants[i].durationSeconds =
        (participants[i].leftAt - participants[i].joinedAt) * 60

\* C32: an admission check (Join, validate or a socket handshake) on a
\* meeting whose maxParticipants is 0 or unset (stored as 0) or at least 100
\* never answers "Meeting is full", however many participants are active.
C32_LimitDisabled ==
  [][\A s \in Slots :
       (/\ tasks[s].op \in {"join", "validate", "connect"} /\ Returns(s)
        /\ tasks[s].m \in DOMAIN meetings
        /\ meetings[tasks[s].m].maxParticipants \notin 1..99)
         => last'.res # "Meeting is full"]_vars

\* a Join has just succeeded on a meeting whose limit was set to 0 while two
\* other users are active in it
C32_Witness ==
  /\ last.op = "join" /\ last.res = "success"
  /\ meetings[last.m].maxParticipants = 0
  /\ Cardinality(ActiveUsers(last.m) \ {last.u}) >= 2

\* C33: while a user who has a Participant document in a meeting holds an
\* open meeting-mode connection for it, a document of that user in that
\* meeting is joined or connected; the disconnect of an older connection of
\* the same user, handled after the newer one was admitted, does not mark
\* the user left.
C33_OpenConnectionIsActive ==
  \A c \in ConnIds :
    (/\ conns[c].state = "open" /\ conns[c].mode = "meeting"
     /\ RecordsOf(conns[c].room, conns[c].user) # {})
      => \E i \in RecordsOf(conns[c].room, conns[c].user) :
           participants[i].status \in {"joined", "connected"}

\* C34: for a meeting with maxParticipants = N, 0 < N < 100, the distinct
\* users that hold an admitted meeting-mode connection in the meeting's room
\* never number more than N, also when they connect without joinMeeting.
C34_RoomWithinLimit ==
  \A m \in DOMAIN meetings :
    meetings[m].maxParticipants \in 1..99 =>
      Cardinality({conns[c].user : c \in {d \in rooms[m] : conns[d].mode = "meeting"}})
        <= meetings[m].maxParticipants

\* C35: once a meeting's endedAt is set it keeps its value: a Leave, a
\* disconnect or an End on a meeting that is already completed leaves endedAt
\* as it was.
C35_EndedAtFixed ==
  [][\A m \in DOMAIN meetings :
       meetings[m].endedAt # NULL => meetings'[m].endedAt = meetings[m].endedAt]_vars

\* C36: when no operation is in progress, a meeting whose status is active
\* has at least one participant that is joined or connected; the cleanup
\* route on an active meeting does not leave it active without one.
C36_ActiveHasParticipant ==
  Busy = {} =>
    \A m \in DOMAIN meetings : meetings[m].status = "active" => ActiveUsers(m) # {}

\* C37: a storage call of End, Cancel or update made for a caller
\* authenticated as one app on a meeting of another app changes neither the
\* meeting nor its participants.
C37_TenantIsolation ==
  [][\A s \in Slots :
       (/\ tasks[s].op \in {"end", "cancel", "update"} /\ Steps(s)
        /\ tasks[s].m \in DOMAIN meetings
        /\ meetings[tasks[s].m].appId # tasks[s].app)
         => UNCHANGED <<meetings, participants>>]_vars

\* C38: a session-token connection is a member of a room only if that room is
\* in the legacy store and belongs to the token's app; the step that refuses
\* such a connection closes it and changes no room membership, no legacy
\* participant list, no Participant document, sends nothing to any room and
\* starts no webhook delivery; and whatever is sent to a room comes from a
\* connection that is open before or after the step, so a refused connection
\* sends neither user-joined nor user-left.
C38_TokenRoomCheck ==
  /\ [](\A c \in ConnIds :
          (conns[c].mode = "jwt" /\ \E k \in DOMAIN rooms : c \in rooms[k]) =>
            /\ c \in rooms[conns[c].room]
            /\ conns[c].room \in DOMAIN legacy
            /\ legacy[conns[c].room].appId = conns[c].app)
  /\ [][(last'.op = "connect" /\ last'.res = "disconnected") =>
          /\ conns'[last'.c].state = "closed"
          /\ conns[last'.c].state = "none"
          /\ UNCHANGED <<rooms, legacy, participants, meetings, tasks, posts>>
          /\ lastEmit' = NoEmit]_vars
  /\ [][lastEmit'.ev # "" =>
          \/ conns[lastEmit'.from].state = "open"
          \/ conns'[lastEmit'.from].state = "open"]_vars

\* a token of appA for a room that appB created has just been refused while
\* appA has a webhook endpoint
C38_Witness ==
  /\ last.op = "connect" /\ last.res = "disconnected"
  /\ conns[last.c].room \in DOMAIN legacy
  /\ legacy[conns[last.c].room].appId = "appB"
  /\ conns[last.c].app = "appA"
  /\ Configured(apps["appA"])

\* a field of a stored mediaState as a Mongoose document shows it: a
\* missing field reads as the default of ParticipantSchema.mediaState
ReadMediaState(ms, f) ==
  IF f \in DOMAIN ms THEN ms[f] ELSE DefaultMediaState[f]

\* C39: the write of a screen-share-started or screen-share-stopped event
\* leaves audioEnabled and videoEnabled of the sender's mediaState as they
\* were, and the write of a user-media-updated event leaves screenSharing as
\* it was.
C39_MediaStateFrame ==
  [][\A s \in Slots :
       (tasks[s].pc = "m_set" /\ tasks'[s] # tasks[s]) =>
         \A i \in 1..Len(participants) :
           \A f \in {"audioEnabled", "videoEnabled", "screenSharing"} \ DOMAIN tasks[s].arg :
             ReadMediaState(participants'[i].mediaState, f) =
               ReadMediaState(participants[i].mediaState, f)]_vars

\* C40: in every reachable state each Meeting record's meetingId has exactly
\* one reservation in the ledger and it is the one of the meeting's own app;
\* and no two Meeting records share a meetingId: an identifier a createMeeting
\* is about to save is not the meetingId of a Meeting record nor the
\* identifier of another createMeeting, and no save has met a duplicate key.
C40_MeetingIdsReserved ==
  /\ \A m \in DOMAIN meetings :
       {r \in ledger : r.roomId = m} = {[roomId |-> m, appId |-> meetings[m].appId]}
  /\ \A s \in Slots :
       tasks[s].pc = "save" =>
         /\ tasks[s].m \notin DOMAIN meetings
         /\ {r \in ledger : r.roomId = tasks[s].m} =
              {[roomId |-> tasks[s].m, appId |-> tasks[s].app]}
         /\ \A s2 \in Slots \ {s} : tasks[s2].pc = "save" => tasks[s2].m # tasks[s].m
  /\ last.res # "E11000 duplicate key"

\* appA and appB each have a meeting, under different identifiers, and
\* every identifier has been returned once
C40_Witness ==
  /\ Cardinality(DOMAIN meetings) = 2
  /\ {meetings[m].appId : m \in DOMAIN meetings} = Apps
  /\ \A id \in RoomIds : returned[id] = 1

====
